---- MODULE Spec2Model ----
(***************************************************************************)
(* Model of the framework-comparison web application (mhsuzan/web-seminer). *)
(*                                                                         *)
(* State: the three stored tables (Framework, Criterion, Definition), the  *)
(* response of the most recent handler, the record of the most recent LLM  *)
(* enhancement run (its environment and the provider calls it made), and   *)
(* the compare request in flight: its position in compare_frameworks, its  *)
(* local variables and the committed stores that existed while it ran.     *)
(*                                                                         *)
(* Text values (names, descriptions, definition texts, request ids) are    *)
(* sequences of one-character strings, so that strip(), lower(), isdigit(),*)
(* int() and string ordering are computed as Python / the database compute *)
(* them.                                                                   *)
(***************************************************************************)
EXTENDS Integers, Sequences, FiniteSets, TLC

VARIABLES frameworks, criteria, definitions, response, llm_env, llm_calls, pending

vars == <<frameworks, criteria, definitions, response, llm_env, llm_calls, pending>>
store == <<frameworks, criteria, definitions>>

(***************************************************************************)
(* Bounds of the model.                                                    *)
(***************************************************************************)
MaxFw == 2
MaxCrit == 3
MaxDef == 3

(***************************************************************************)
(* Characters and strings.                                                 *)
(***************************************************************************)
ASCII == <<" ", "(", ")",
           "0", "1", "2", "3", "4", "5", "6", "7", "8", "9",
           "A", "B", "C", "D", "E", "F", "G", "H", "I", "J", "K", "L", "M",
           "N", "O", "P", "Q", "R", "S", "T", "U", "V", "W", "X", "Y", "Z",
           "a", "b", "c", "d", "e", "f", "g", "h", "i", "j", "k", "l", "m",
           "n", "o", "p", "q", "r", "s", "t", "u", "v", "w", "x", "y", "z",
           \* SUPERSCRIPT TWO (U+00B2): a digit for str.isdigit(), not for int()
           "²">>

\* code point order of the characters used
OrdTable == [c \in {ASCII[i] : i \in DOMAIN ASCII} |->
                CHOOSE i \in DOMAIN ASCII : ASCII[i] = c]
Ord(c) == OrdTable[c]
IsSpace(c) == c = " "
IsDigit(c) == Ord(c) \in 4..13
IsUpper(c) == Ord(c) \in 14..39
DigitVal(c) == Ord(c) - 4
LowerChar(c) == IF IsUpper(c) THEN ASCII[Ord(c) + 26] ELSE c

\* str.lower()
Lower(s) == [i \in DOMAIN s |-> LowerChar(s[i])]

\* str.strip(): drop leading and trailing whitespace, keep the inside
Strip(s) ==
    LET nonsp == {i \in DOMAIN s : ~IsSpace(s[i])}
    IN  IF nonsp = {} THEN <<>>
        ELSE LET lo == CHOOSE i \in nonsp : \A j \in nonsp : i <= j
                 hi == CHOOSE i \in nonsp : \A j \in nonsp : i >= j
             IN  SubSeq(s, lo, hi)

\* ' '.join(s.split()): collapse every whitespace run to one space and trim
RECURSIVE CollapseWs(_)
CollapseWs(s) ==
    IF s = <<>> THEN <<>>
    ELSE IF IsSpace(Head(s)) THEN CollapseWs(Tail(s))
         ELSE <<Head(s)>> \o
              (LET t == Tail(s)
               IN  IF t # <<>> /\ IsSpace(Head(t))
                      THEN (LET r == CollapseWs(t)
                            IN  IF r = <<>> THEN <<>> ELSE <<" ">> \o r)
                      ELSE CollapseWs(t))

\* trims, collapses internal whitespace runs to single spaces, lowercases
normalize_loose(s) == Lower(Strip(CollapseWs(s)))

\* ordering of two strings by code point (binary collation, Python str <)
RECURSIVE StrLess(_, _)
StrLess(a, b) ==
    IF b = <<>> THEN FALSE
    ELSE IF a = <<>> THEN TRUE
    ELSE IF Ord(Head(a)) # Ord(Head(b)) THEN Ord(Head(a)) < Ord(Head(b))
    ELSE StrLess(Tail(a), Tail(b))

\* str.isdigit(): true of the decimal digits and of the other characters of
\* Unicode numeric type Digit, such as the superscript digits
IsDigitChar(c) == IsDigit(c) \/ c = "²"
IsDigitStr(s) == s # <<>> /\ \A i \in DOMAIN s : IsDigitChar(s[i])

\* int(s) raises ValueError unless s consists of decimal digits
IntRaises(s) == s = <<>> \/ \E i \in DOMAIN s : ~IsDigit(s[i])

\* int(s) for a string of decimal digits
RECURSIVE IntOf(_)
IntOf(s) == IF s = <<>> THEN 0
            ELSE 10 * IntOf(SubSeq(s, 1, Len(s) - 1)) + DigitVal(s[Len(s)])


(***************************************************************************)
(* Storage: rows of the three tables.                                      *)
(*   Framework  [id, name, year]          (year = NoYear when NULL)        *)
(*   Criterion  [id, framework, name, description, category, order]        *)
(*   Definition [id, criterion, definition_text]                           *)
(***************************************************************************)
NoYear == -1

MaxId(S) == IF S = {} THEN 0 ELSE CHOOSE n \in {x.id : x \in S} : \A x \in S : x.id <= n
NextId(S) == MaxId(S) + 1

(***************************************************************************)
(* import_docx: parse_table and import_frameworks.                         *)
(***************************************************************************)
\* re.search(r'(\d{4})', framework_name): the first run of four digits
YearOfName(name) ==
    LET starts == {i \in 1..(Len(name) - 3) : \A k \in 0..3 : IsDigit(name[i + k])}
    IN  IF starts = {} THEN NoYear
        ELSE LET i == CHOOSE a \in starts : \A b \in starts : a <= b
             IN  IntOf(SubSeq(name, i, i + 3))

\* a row parser that stores the cells as they are, untrimmed
ParseRowUnstripped(acc, row) ==
    LET started == row.framework # <<>>
        done1 == IF started /\ acc.current # <<>>
                    THEN acc.done \o acc.current ELSE acc.done
        cur1 == IF started
                   THEN << [name |-> row.framework,
                            year |-> YearOfName(row.framework),
                            criteria |-> <<>>] >>
                   ELSE acc.current
        cur2 == IF cur1 # <<>> /\ row.criterion # <<>>
                   THEN << [cur1[1] EXCEPT !.criteria = @ \o
                             << [name |-> row.criterion,
                                 description |-> row.definition,
                                 category |-> <<>>,
                                 definitions |-> IF row.definition # <<>>
                                                   THEN <<row.definition>>
                                                   ELSE <<>>] >>] >>
                   ELSE cur1
    IN  [done |-> done1, current |-> cur2]

\* one data row of a table whose header is Framework | Criterion | Definition
ParseRow(acc, row) ==
    LET framework_name == Strip(row.framework)
        criterion_name == Strip(row.criterion)
        definition_text == Strip(row.definition)
        started == framework_name # <<>>
        done1 == IF started /\ acc.current # <<>>
                    THEN acc.done \o acc.current ELSE acc.done
        cur1 == IF started
                   THEN << [name |-> framework_name,
                            year |-> YearOfName(framework_name),
                            criteria |-> <<>>] >>
                   ELSE acc.current
        cur2 == IF cur1 # <<>> /\ criterion_name # <<>>
                   THEN << [cur1[1] EXCEPT !.criteria = @ \o
                             << [name |-> criterion_name,
                                 description |-> definition_text,
                                 category |-> <<>>,
                                 definitions |-> IF definition_text # <<>>
                                                   THEN <<definition_text>>
                                                   ELSE <<>>] >>] >>
                   ELSE cur1
    IN  [done |-> done1, current |-> cur2]

RECURSIVE ParseRows(_, _)
ParseRows(acc, rows) ==
    IF rows = <<>> THEN acc ELSE ParseRows(ParseRow(acc, Head(rows)), Tail(rows))

parse_table(rows) ==
    LET acc == ParseRows([done |-> <<>>, current |-> <<>>], rows)
    IN  acc.done \o acc.current

\* Definition.objects.get_or_create(criterion=..., definition_text=text.strip())
RECURSIVE ImportDefinitions(_, _, _)
ImportDefinitions(db, crit_id, texts) ==
    IF texts = <<>> \/ db.failed THEN db
    ELSE LET text == Strip(Head(texts))
             same == {d \in db.definitions :
                        d.criterion = crit_id /\ d.definition_text = text}
             db1 == IF text = <<>> THEN db
                    ELSE IF same = {} THEN
                       [db EXCEPT !.definitions = @ \cup
                          {[id |-> NextId(db.definitions), criterion |-> crit_id,
                            definition_text |-> text]}]
                    ELSE IF Cardinality(same) = 1 THEN db
                    ELSE [db EXCEPT !.failed = TRUE]
         IN  ImportDefinitions(db1, crit_id, Tail(texts))

\* Criterion.objects.get_or_create(framework=..., name=..., defaults={... 'order': idx})
RECURSIVE ImportCriteria(_, _, _, _)
ImportCriteria(db, fw_id, cdata, idx) ==
    IF cdata = <<>> \/ db.failed THEN db
    ELSE LET c == Head(cdata)
             same == {x \in db.criteria : x.framework = fw_id /\ x.name = c.name}
             crit_id == IF same = {} THEN NextId(db.criteria)
                        ELSE (CHOOSE x \in same : TRUE).id
             db1 == IF same = {} THEN
                       [db EXCEPT !.criteria = @ \cup
                          {[id |-> crit_id, framework |-> fw_id, name |-> c.name,
                            description |-> c.description, category |-> c.category,
                            order |-> idx]}]
                    ELSE db
             db2 == ImportDefinitions(db1, crit_id, c.definitions)
         IN  ImportCriteria(db2, fw_id, Tail(cdata), idx + 1)

\* Framework.objects.get_or_create(name=..., defaults={... 'year': ...})
RECURSIVE ImportFrameworkList(_, _)
ImportFrameworkList(db, frameworks_data) ==
    IF frameworks_data = <<>> \/ db.failed THEN db
    ELSE LET fw_data == Head(frameworks_data)
             same == {f \in db.frameworks : f.name = fw_data.name}
             created == same = {}
             fw_id == IF created THEN NextId(db.frameworks)
                      ELSE (CHOOSE f \in same : TRUE).id
             db1 == IF created THEN
                       [db EXCEPT !.frameworks = @ \cup
                          {[id |-> fw_id, name |-> fw_data.name, year |-> fw_data.year]},
                                  !.imported_count = @ + 1]
                    ELSE IF Cardinality(same) = 1 THEN db
                    ELSE [db EXCEPT !.failed = TRUE]
             db2 == ImportCriteria(db1, fw_id, fw_data.criteria, 0)
         IN  ImportFrameworkList(db2, Tail(frameworks_data))

import_frameworks(db, frameworks_data) ==
    ImportFrameworkList([frameworks |-> db.frameworks, criteria |-> db.criteria,
                         definitions |-> db.definitions,
                         imported_count |-> 0, failed |-> FALSE],
                        frameworks_data)

\* no compare request is in flight
Idle == [phase |-> "idle"]

\* no enhancement run belongs to the most recent handler
NoEnv == [settings |-> "unused"]

CurrentDb == [frameworks |-> frameworks, criteria |-> criteria,
              definitions |-> definitions]

Limits == [frameworks |-> MaxFw, criteria |-> MaxCrit, definitions |-> MaxDef]

WithinBounds(db, limits) ==
    /\ Cardinality(db.frameworks) <= limits.frameworks
    /\ Cardinality(db.criteria) <= limits.criteria
    /\ Cardinality(db.definitions) <= limits.definitions

\* handle() of import_docx without --dry-run: the import runs in one
\* transaction; an exception rolls it back and is reported as a CommandError.
ImportCommit(docs, limits) ==
    \E table \in docs :
        \E after \in {import_frameworks(CurrentDb, parse_table(table))} :
            /\ WithinBounds(after, limits)
            /\ IF after.failed
                  THEN /\ UNCHANGED store
                       /\ response' = [kind |-> "import_error"]
                  ELSE /\ frameworks' = after.frameworks
                       /\ criteria' = after.criteria
                       /\ definitions' = after.definitions
                       /\ response' = [kind |-> "import",
                                       imported_count |-> after.imported_count]
            /\ llm_env' = NoEnv
            /\ llm_calls' = <<>>

\* an import while no compare request is in flight
ImportDocx(docs, limits) == ImportCommit(docs, limits) /\ UNCHANGED pending


(***************************************************************************)
(* Query ordering.                                                         *)
(***************************************************************************)
\* Placement of NULL years under ORDER BY year DESC: decided by the database
\* backend configured in the project settings.
NullYearLastOnDesc == TRUE

\* ORDER BY year ASC with NULL years last
YearAscBefore(a, b) ==
    IF a = NoYear THEN FALSE
    ELSE IF b = NoYear THEN TRUE
    ELSE a < b

YearDescBefore(a, b) ==
    IF a = NoYear THEN ~NullYearLastOnDesc /\ b # NoYear
    ELSE IF b = NoYear THEN NullYearLastOnDesc
    ELSE a > b

\* order_by('-year', 'name'), Framework.Meta.ordering; rows equal in both
\* columns come out in primary-key order
FwBefore(x, y) ==
    IF x.year # y.year THEN YearDescBefore(x.year, y.year)
    ELSE IF x.name # y.name THEN StrLess(x.name, y.name)
    ELSE x.id < y.id

\* the frameworks in primary-key order
RECURSIVE OrderFrameworksById(_)
OrderFrameworksById(S) ==
    IF S = {} THEN <<>>
    ELSE LET m == CHOOSE x \in S : \A y \in S : x.id <= y.id
         IN  <<m>> \o OrderFrameworksById(S \ {m})

RECURSIVE OrderFrameworks(_)
OrderFrameworks(S) ==
    IF S = {} THEN <<>>
    ELSE LET m == CHOOSE x \in S : \A y \in S \ {x} : FwBefore(x, y)
         IN  <<m>> \o OrderFrameworks(S \ {m})

FrameworkOf(db, c) == CHOOSE f \in db.frameworks : f.id = c.framework

\* Criterion.Meta.ordering = ['framework', 'order', 'name']; ordering by the
\* relation 'framework' is the ordering of Framework
CritBefore(db, x, y) ==
    IF x.framework # y.framework
       THEN FwBefore(FrameworkOf(db, x), FrameworkOf(db, y))
    ELSE IF x.order # y.order THEN x.order < y.order
    ELSE IF x.name # y.name THEN StrLess(x.name, y.name)
    ELSE x.id < y.id

RECURSIVE OrderCriteria(_, _)
OrderCriteria(db, S) ==
    IF S = {} THEN <<>>
    ELSE LET m == CHOOSE x \in S : \A y \in S \ {x} : CritBefore(db, x, y)
         IN  <<m>> \o OrderCriteria(db, S \ {m})

\* Definition.Meta.ordering = ['criterion', 'id'] within one criterion
RECURSIVE OrderDefinitions(_)
OrderDefinitions(S) ==
    IF S = {} THEN <<>>
    ELSE LET m == CHOOSE x \in S : \A y \in S : x.id <= y.id
         IN  <<m>> \o OrderDefinitions(S \ {m})

\* name__iexact
IExact(a, b) == Lower(a) = Lower(b)

(***************************************************************************)
(* compare_frameworks: the base comparison.                                *)
(***************************************************************************)
\* try: [int(fid) for fid in framework_ids if fid.isdigit()]
\* except (ValueError, TypeError): framework_ids = []      (views.py 102-105)
ParseIds(raw) ==
    LET kept == SelectSeq(raw, IsDigitStr)
    IN  IF \E i \in DOMAIN kept : IntRaises(kept[i]) THEN <<>>
        ELSE [i \in DOMAIN kept |-> IntOf(kept[i])]

SeqRange(q) == {q[i] : i \in DOMAIN q}

\* a deduplication loop that keys on the trimmed name without lowercasing it
RECURSIVE DedupNamesCaseSensitive(_, _, _)
DedupNamesCaseSensitive(names, seen, out) ==
    IF names = <<>> THEN out
    ELSE LET normalized == Strip(Head(names))
         IN  IF normalized # <<>> /\ normalized \notin seen
                THEN DedupNamesCaseSensitive(Tail(names), seen \cup {normalized},
                                             Append(out, normalized))
                ELSE DedupNamesCaseSensitive(Tail(names), seen, out)

\* the deduplication loop over all_criteria (views.py 130-138)
RECURSIVE DedupNames(_, _, _)
DedupNames(names, seen, out) ==
    IF names = <<>> THEN out
    ELSE LET normalized == Strip(Head(names))
             normalized_lower == Lower(normalized)
         IN  IF normalized # <<>> /\ normalized_lower \notin seen
                THEN DedupNames(Tail(names), seen \cup {normalized_lower},
                                Append(out, normalized))
                ELSE DedupNames(Tail(names), seen, out)

\* sorted(criteria_names_list, key=lambda x: x.lower()): a stable sort
RECURSIVE InsertByLower(_, _)
InsertByLower(x, sorted) ==
    IF sorted = <<>> THEN <<x>>
    ELSE IF StrLess(Lower(x), Lower(Head(sorted)))
            THEN <<x>> \o sorted
            ELSE <<Head(sorted)>> \o InsertByLower(x, Tail(sorted))

RECURSIVE SortedByLower(_)
SortedByLower(q) ==
    IF q = <<>> THEN <<>>
    ELSE InsertByLower(q[Len(q)], SortedByLower(SubSeq(q, 1, Len(q) - 1)))

\* the criterion registry: criteria_names (views.py 125-141)
CriteriaNames(db, framework_ids) ==
    LET all_criteria == OrderCriteria(db,
                           {c \in db.criteria : c.framework \in framework_ids})
        names == [i \in DOMAIN all_criteria |-> all_criteria[i].name]
    IN  SortedByLower(DedupNames(names, {}, <<>>))

\* a definition loop that keys on the trimmed text without lowercasing it
RECURSIVE DedupDefinitionsCaseSensitive(_, _, _)
DedupDefinitionsCaseSensitive(defs, seen, out) ==
    IF defs = <<>> THEN out
    ELSE LET def_text == Strip(Head(defs).definition_text)
         IN  IF def_text # <<>> /\ def_text \notin seen
                THEN DedupDefinitionsCaseSensitive(Tail(defs), seen \cup {def_text},
                                                   Append(out, def_text))
                ELSE DedupDefinitionsCaseSensitive(Tail(defs), seen, out)

\* the definitions of one cell (views.py 164-172)
RECURSIVE DedupDefinitions(_, _, _)
DedupDefinitions(defs, seen, out) ==
    IF defs = <<>> THEN out
    ELSE LET def_text == Strip(Head(defs).definition_text)
             def_normalized == Lower(def_text)
         IN  IF def_text # <<>> /\ def_normalized \notin seen
                THEN DedupDefinitions(Tail(defs), seen \cup {def_normalized},
                                      Append(out, def_text))
                ELSE DedupDefinitions(Tail(defs), seen, out)

\* Criterion.objects.filter(framework=framework, name__iexact=criterion_name).first()
LookupCriterion(db, framework, criterion_name) ==
    OrderCriteria(db, {c \in db.criteria :
                         c.framework = framework.id /\ IExact(c.name, criterion_name)})

\* one cell of a row (views.py 157-183)
Cell(db, framework, criterion_name) ==
    LET found == LookupCriterion(db, framework, criterion_name)
    IN  IF found # <<>>
           THEN LET criterion == found[1]
                IN  [has_criterion |-> TRUE,
                     description |-> criterion.description,
                     category |-> criterion.category,
                     definitions |->
                        DedupDefinitions(
                           OrderDefinitions({d \in db.definitions :
                                               d.criterion = criterion.id}),
                           {}, <<>>)]
           ELSE [has_criterion |-> FALSE]

\* the loop over criteria_names that builds comparison_data (views.py 144-188)
RECURSIVE BuildRows(_, _, _, _, _)
BuildRows(db, selected, names, seen_criteria, out) ==
    IF names = <<>> THEN out
    ELSE LET criterion_name == Head(names)
             criterion_key == Strip(Lower(criterion_name))
         IN  IF criterion_key \in seen_criteria
                THEN BuildRows(db, selected, Tail(names), seen_criteria, out)
                ELSE BuildRows(db, selected, Tail(names),
                               seen_criteria \cup {criterion_key},
                               Append(out,
                                  [name |-> criterion_name,
                                   framework_data |->
                                      [i \in DOMAIN selected |->
                                          Cell(db, selected[i], criterion_name)]]))

\* a count that matches the criterion name exactly, case included
FrameworksWithCriterionExact(db, selected, criterion_name) ==
    Cardinality({c.framework : c \in
                   {x \in db.criteria :
                      /\ x.framework \in {selected[i].id : i \in DOMAIN selected}
                      /\ x.name = criterion_name}})

\* frameworks_with_criterion (views.py 219-222)
FrameworksWithCriterion(db, selected, criterion_name) ==
    Cardinality({c.framework : c \in
                   {x \in db.criteria :
                      /\ x.framework \in {selected[i].id : i \in DOMAIN selected}
                      /\ IExact(x.name, criterion_name)}})

\* a classifier that records the criteria common to all frameworks only
RECURSIVE ClassifyCommonOnly(_, _, _, _)
ClassifyCommonOnly(db, selected, names, acc) ==
    IF names = <<>> THEN acc
    ELSE LET criterion_name == Head(names)
             n == FrameworksWithCriterion(db, selected, criterion_name)
             acc1 == IF n = Len(selected)
                        THEN [acc EXCEPT !.similarities = Append(@, criterion_name)]
                        ELSE acc
         IN  ClassifyCommonOnly(db, selected, Tail(names), acc1)

\* similarities and differences (views.py 212-231)
RECURSIVE Classify(_, _, _, _)
Classify(db, selected, names, acc) ==
    IF names = <<>> THEN acc
    ELSE LET criterion_name == Head(names)
             n == FrameworksWithCriterion(db, selected, criterion_name)
             acc1 == IF n = Len(selected)
                        THEN [acc EXCEPT !.similarities = Append(@, criterion_name)]
                     ELSE IF n > 0
                        THEN [acc EXCEPT !.differences = Append(@,
                                [criterion |-> criterion_name,
                                 in_frameworks |-> n,
                                 total |-> Len(selected)])]
                     ELSE acc
         IN  Classify(db, selected, Tail(names), acc1)

\* compare_frameworks up to line 231: kind "form" is the early return that
\* renders the selection form only
BaseComparison(db, raw_ids) ==
    LET parsed == ParseIds(raw_ids)
        selected == OrderFrameworks({f \in db.frameworks : f.id \in SeqRange(parsed)})
        \* "If some IDs were invalid, only use valid ones" (views.py 119-121)
        framework_ids == IF Len(selected) # Len(parsed)
                            THEN {selected[i].id : i \in DOMAIN selected}
                            ELSE SeqRange(parsed)
        criteria_names == CriteriaNames(db, framework_ids)
        none == [similarities |-> <<>>, differences |-> <<>>]
        classes == IF Len(selected) > 1
                      THEN Classify(db, selected, criteria_names, none)
                      ELSE none
    IN  IF raw_ids = <<>> \/ parsed = <<>>
           THEN [kind |-> "form"]
           ELSE [kind |-> "comparison",
                 selected_frameworks |-> selected,
                 criteria_names |-> criteria_names,
                 comparison_data |-> BuildRows(db, selected, criteria_names, {}, <<>>),
                 similarities |-> classes.similarities,
                 differences |-> classes.differences]


(***************************************************************************)
(* cleanup_duplicates.                                                     *)
(*                                                                         *)
(* The command works on a record of the three tables with                  *)
(*   budget   the number of database writes that succeed before one raises *)
(*   failed   a write has raised; the exception ends the command           *)
(*   frameworks_merged, criteria_merged, definitions_removed  its counters *)
(* Rows are created one after the other, so created_at orders them as      *)
(* their ids do.                                                           *)
(***************************************************************************)
UpperChar(c) == IF Ord(c) \in 40..65 THEN ASCII[Ord(c) - 26] ELSE c

\* Python's None; no string is equal to it, a string being a sequence of
\* one-character strings
None == <<"None">>

\* one pass of name.replace('  ', ' ')
RECURSIVE ReplaceDoubleSpace(_)
ReplaceDoubleSpace(s) ==
    IF s = <<>> THEN <<>>
    ELSE IF Len(s) > 1 /\ IsSpace(s[1]) /\ IsSpace(s[2])
            THEN <<" ">> \o ReplaceDoubleSpace(SubSeq(s, 3, Len(s)))
            ELSE <<Head(s)>> \o ReplaceDoubleSpace(Tail(s))

\* a normalizer that squeezes whitespace with a single replace pass
normalize_name_replace(name) ==
    IF name = None \/ name = <<>> THEN <<>>
    ELSE ReplaceDoubleSpace(Strip(Lower(name)))

\* ' '.join(name.lower().strip().split()), '' for an empty or absent name
normalize_name(name) ==
    IF name = None \/ name = <<>> THEN <<>> ELSE CollapseWs(Strip(Lower(name)))

\* ' '.join(name.strip().split()) with its first character in upper case
normalize_criterion_name(name) ==
    IF name = None \/ name = <<>> THEN <<>>
    ELSE LET normalized == CollapseWs(Strip(name))
         IN  IF normalized = <<>> THEN normalized
             ELSE IF Len(normalized) > 1
                     THEN <<UpperChar(normalized[1])>> \o Tail(normalized)
                     ELSE <<UpperChar(normalized[1])>>

\* one statement that writes to the database
Write(db, fw, cr, df) ==
    IF db.failed THEN db
    ELSE IF db.budget = 0 THEN [db EXCEPT !.failed = TRUE]
    ELSE [db EXCEPT !.frameworks = fw, !.criteria = cr, !.definitions = df,
                    !.budget = @ - 1]

SaveRow(S, row) == {x \in S : x.id # row.id} \cup {row}
SaveFramework(db, f) == Write(db, SaveRow(db.frameworks, f), db.criteria, db.definitions)
SaveCriterion(db, c) == Write(db, db.frameworks, SaveRow(db.criteria, c), db.definitions)
SaveDefinition(db, d) == Write(db, db.frameworks, db.criteria, SaveRow(db.definitions, d))

\* delete() with on_delete=CASCADE
DeleteDefinition(db, d) ==
    Write(db, db.frameworks, db.criteria, {x \in db.definitions : x.id # d.id})
DeleteCriterion(db, c) ==
    Write(db, db.frameworks, {x \in db.criteria : x.id # c.id},
          {x \in db.definitions : x.criterion # c.id})
DeleteFramework(db, f) ==
    LET gone == {c.id : c \in {x \in db.criteria : x.framework = f.id}}
    IN  Write(db, {x \in db.frameworks : x.id # f.id},
              {x \in db.criteria : x.framework # f.id},
              {x \in db.definitions : x.criterion \notin gone})

\* the keys of a sequence in the order of their first occurrence (dict keys)
RECURSIVE FirstOccurrences(_, _)
FirstOccurrences(q, out) ==
    IF q = <<>> THEN out
    ELSE FirstOccurrences(Tail(q),
            IF \E i \in DOMAIN out : out[i] = Head(q) THEN out ELSE Append(out, Head(q)))

\* sort(key=created_at ...) of a group
RECURSIVE OrderByCreation(_)
OrderByCreation(S) ==
    IF S = {} THEN <<>>
    ELSE LET m == CHOOSE x \in S : \A y \in S : x.id <= y.id
         IN  <<m>> \o OrderByCreation(S \ {m})

\* a move that leaves every definition with the duplicate
LeaveDefinitions(db, defs, target) == db

\* "Move definitions": re-parent the definitions whose text the target
\* criterion does not have yet (cleanup_duplicates.py 156-163, 219-225)
RECURSIVE MoveDefinitions(_, _, _)
MoveDefinitions(db, defs, target) ==
    IF defs = <<>> THEN db
    ELSE LET definition == Head(defs)
             exists == \E x \in db.definitions :
                          /\ x.criterion = target
                          /\ x.definition_text = definition.definition_text
             db1 == IF exists THEN db
                    ELSE SaveDefinition(db, [definition EXCEPT !.criterion = target])
         IN  MoveDefinitions(db1, Tail(defs), target)

\* "Merge criterion data" / "Merge data": the longer description wins, the
\* category is filled in when empty
MergeCriterionData(primary, duplicate) ==
    LET description ==
            IF primary.description = <<>> /\ duplicate.description # <<>>
               THEN duplicate.description
            ELSE IF /\ duplicate.description # <<>>
                    /\ Len(duplicate.description) > Len(primary.description)
               THEN duplicate.description
            ELSE primary.description
        category == IF primary.category = <<>> /\ duplicate.category # <<>>
                       THEN duplicate.category ELSE primary.category
    IN  [primary EXCEPT !.description = description, !.category = category]

\* "Move criteria from duplicate to primary" (cleanup_duplicates.py 138-167)
RECURSIVE MoveCriteria(_, _, _)
MoveCriteria(db, crits, primary_id) ==
    IF crits = <<>> THEN db
    ELSE LET criterion == Head(crits)
             existing == OrderCriteria(db, {x \in db.criteria :
                                              /\ x.framework = primary_id
                                              /\ x.name = criterion.name})
             db1 == IF existing # <<>>
                       THEN MoveDefinitions(
                               SaveCriterion(db, MergeCriterionData(existing[1], criterion)),
                               OrderDefinitions({d \in db.definitions :
                                                   d.criterion = criterion.id}),
                               existing[1].id)
                       ELSE SaveCriterion(db, [criterion EXCEPT !.framework = primary_id])
         IN  MoveCriteria(db1, Tail(crits), primary_id)

\* the loop over the duplicates of one group of frameworks (100-172)
RECURSIVE MergeFrameworkGroup(_, _, _, _)
MergeFrameworkGroup(db, primary, duplicates, dry_run) ==
    IF duplicates = <<>> \/ db.failed THEN db
    ELSE LET duplicate == Head(duplicates)
             primary1 == IF primary.year = NoYear /\ duplicate.year # NoYear
                            THEN [primary EXCEPT !.year = duplicate.year]
                            ELSE primary
             db1 == MoveCriteria(db,
                       OrderCriteria(db, {c \in db.criteria : c.framework = duplicate.id}),
                       primary.id)
             db2 == IF dry_run THEN db1
                    ELSE DeleteFramework(SaveFramework(db1, primary1), duplicate)
             db3 == IF db2.failed THEN db2
                    ELSE [db2 EXCEPT !.frameworks_merged = @ + 1]
         IN  MergeFrameworkGroup(db3, primary1, Tail(duplicates), dry_run)

RECURSIVE MergeFrameworkGroups(_, _, _, _)
MergeFrameworkGroups(db, all_frameworks, keys, dry_run) ==
    IF keys = <<>> THEN db
    ELSE LET group == OrderByCreation({all_frameworks[i] : i \in
                         {j \in DOMAIN all_frameworks :
                            normalize_name(all_frameworks[j].name) = Head(keys)}})
             db1 == IF Len(group) > 1
                       THEN MergeFrameworkGroup(db, group[1], Tail(group), dry_run)
                       ELSE db
         IN  MergeFrameworkGroups(db1, all_frameworks, Tail(keys), dry_run)

cleanup_duplicate_frameworks(db, dry_run) ==
    LET all_frameworks == OrderFrameworks(db.frameworks)
        keys == FirstOccurrences([i \in DOMAIN all_frameworks |->
                                    normalize_name(all_frameworks[i].name)], <<>>)
    IN  MergeFrameworkGroups(db, all_frameworks, keys, dry_run)

\* the loop over the duplicates of one group of criteria (209-230)
RECURSIVE MergeCriterionGroup(_, _, _, _)
MergeCriterionGroup(db, primary, duplicates, dry_run) ==
    IF duplicates = <<>> \/ db.failed THEN db
    ELSE LET duplicate == Head(duplicates)
             primary1 == MergeCriterionData(primary, duplicate)
             db1 == MoveDefinitions(db,
                       OrderDefinitions({d \in db.definitions :
                                           d.criterion = duplicate.id}),
                       primary.id)
             db2 == IF dry_run THEN db1
                    ELSE DeleteCriterion(SaveCriterion(db1, primary1), duplicate)
             db3 == IF db2.failed THEN db2
                    ELSE [db2 EXCEPT !.criteria_merged = @ + 1]
         IN  MergeCriterionGroup(db3, primary1, Tail(duplicates), dry_run)

RECURSIVE MergeCriterionGroups(_, _, _, _)
MergeCriterionGroups(db, framework_criteria, keys, dry_run) ==
    IF keys = <<>> THEN db
    ELSE LET group == OrderByCreation({framework_criteria[i] : i \in
                         {j \in DOMAIN framework_criteria :
                            normalize_criterion_name(framework_criteria[j].name)
                               = Head(keys)}})
             db1 == IF Len(group) > 1
                       THEN MergeCriterionGroup(db, group[1], Tail(group), dry_run)
                       ELSE db
         IN  MergeCriterionGroups(db1, framework_criteria, Tail(keys), dry_run)

\* the loop over the frameworks; prefetched holds the tables as they were
\* when the queryset with prefetch_related('criteria') was evaluated
RECURSIVE MergeCriteriaOfFrameworks(_, _, _, _)
MergeCriteriaOfFrameworks(db, prefetched, fws, dry_run) ==
    IF fws = <<>> THEN db
    ELSE LET framework_criteria ==
                OrderCriteria(prefetched, {c \in prefetched.criteria :
                                             c.framework = Head(fws).id})
             keys == FirstOccurrences([i \in DOMAIN framework_criteria |->
                        normalize_criterion_name(framework_criteria[i].name)], <<>>)
         IN  MergeCriteriaOfFrameworks(
                MergeCriterionGroups(db, framework_criteria, keys, dry_run),
                prefetched, Tail(fws), dry_run)

cleanup_duplicate_criteria(db, dry_run) ==
    MergeCriteriaOfFrameworks(db, db, OrderFrameworks(db.frameworks), dry_run)

\* a in b, for strings
Contains(a, b) ==
    \E i \in 1..(Len(b) - Len(a) + 1) : SubSeq(b, i, i + Len(a) - 1) = a

NearDuplicateDelta == 20

\* the inner loop over other_def (cleanup_duplicates.py 254-262)
ShorterNearDuplicate(definition, definitions_list) ==
    LET normalized == normalize_name(definition.definition_text)
    IN  \E k \in DOMAIN definitions_list :
           LET other_def == definitions_list[k]
               other_normalized == normalize_name(other_def.definition_text)
               delta == Len(normalized) - Len(other_normalized)
           IN  /\ other_def.id # definition.id
               /\ Contains(normalized, other_normalized)
                     \/ Contains(other_normalized, normalized)
               /\ (IF delta < 0 THEN -delta ELSE delta) < NearDuplicateDelta
               /\ Len(normalized) < Len(other_normalized)

\* a loop that removes the exact duplicates only
RECURSIVE DuplicatesToRemoveExact(_, _, _, _)
DuplicatesToRemoveExact(defs, definitions_list, seen_normalized, out) ==
    IF defs = <<>> THEN out
    ELSE LET definition == Head(defs)
             normalized == normalize_name(definition.definition_text)
         IN  IF normalized \in seen_normalized
                THEN DuplicatesToRemoveExact(Tail(defs), definitions_list,
                                             seen_normalized, Append(out, definition))
                ELSE DuplicatesToRemoveExact(Tail(defs), definitions_list,
                                             seen_normalized \cup {normalized}, out)

\* duplicates_to_remove of one criterion (cleanup_duplicates.py 241-262)
RECURSIVE DuplicatesToRemove(_, _, _, _)
DuplicatesToRemove(defs, definitions_list, seen_normalized, out) ==
    IF defs = <<>> THEN out
    ELSE LET definition == Head(defs)
             normalized == normalize_name(definition.definition_text)
         IN  IF normalized \in seen_normalized
                THEN DuplicatesToRemove(Tail(defs), definitions_list,
                                        seen_normalized, Append(out, definition))
                ELSE DuplicatesToRemove(Tail(defs), definitions_list,
                        seen_normalized \cup {normalized},
                        IF ShorterNearDuplicate(definition, definitions_list)
                           THEN Append(out, definition) ELSE out)

RECURSIVE DeleteDefinitions(_, _)
DeleteDefinitions(db, dups) ==
    IF dups = <<>> THEN db
    ELSE DeleteDefinitions(DeleteDefinition(db, Head(dups)), Tail(dups))

\* the loop over the criteria; prefetched holds the tables as they were when
\* the queryset with prefetch_related('definitions') was evaluated
RECURSIVE RemoveDefinitionsOfCriteria(_, _, _, _)
RemoveDefinitionsOfCriteria(db, prefetched, crits, dry_run) ==
    IF crits = <<>> \/ db.failed THEN db
    ELSE LET definitions_list ==
                OrderDefinitions({d \in prefetched.definitions :
                                    d.criterion = Head(crits).id})
             duplicates_to_remove ==
                DuplicatesToRemove(definitions_list, definitions_list, {}, <<>>)
             db1 == IF dry_run THEN db ELSE DeleteDefinitions(db, duplicates_to_remove)
             db2 == IF db1.failed THEN db1
                    ELSE [db1 EXCEPT !.definitions_removed =
                                        @ + Len(duplicates_to_remove)]
         IN  RemoveDefinitionsOfCriteria(db2, prefetched, Tail(crits), dry_run)

cleanup_duplicate_definitions(db, dry_run) ==
    RemoveDefinitionsOfCriteria(db, db, OrderCriteria(db, db.criteria), dry_run)

\* no database write of the command raises
NoFailure == -1

\* a body that merges the criteria before the frameworks
cleanup_duplicates_criteria_first(db, dry_run, budget) ==
    LET start == [frameworks |-> db.frameworks, criteria |-> db.criteria,
                  definitions |-> db.definitions,
                  budget |-> budget, failed |-> FALSE,
                  frameworks_merged |-> 0, criteria_merged |-> 0,
                  definitions_removed |-> 0]
        merged == cleanup_duplicate_criteria(start, dry_run)
        merged2 == IF merged.failed THEN merged
                   ELSE cleanup_duplicate_frameworks(merged, dry_run)
    IN  IF merged2.failed THEN merged2
        ELSE cleanup_duplicate_definitions(merged2, dry_run)

\* the body of the atomic block of handle() (cleanup_duplicates.py 45-53)
cleanup_duplicates(db, dry_run, budget) ==
    LET start == [frameworks |-> db.frameworks, criteria |-> db.criteria,
                  definitions |-> db.definitions,
                  budget |-> budget, failed |-> FALSE,
                  frameworks_merged |-> 0, criteria_merged |-> 0,
                  definitions_removed |-> 0]
        merged == cleanup_duplicate_frameworks(start, dry_run)
        merged2 == IF merged.failed THEN merged
                   ELSE cleanup_duplicate_criteria(merged, dry_run)
    IN  IF merged2.failed THEN merged2
        ELSE cleanup_duplicate_definitions(merged2, dry_run)

\* a command whose writes are committed one by one, with no transaction
CleanupDuplicatesNoTransaction(dry_runs, budgets) ==
    \E dry_run \in dry_runs, budget \in budgets :
        \E after \in {cleanup_duplicates(CurrentDb, dry_run, budget)} :
            /\ frameworks' = after.frameworks
            /\ criteria' = after.criteria
            /\ definitions' = after.definitions
            /\ response' = IF after.failed
                              THEN [kind |-> "cleanup_error", dry_run |-> dry_run,
                                    writes |-> budget]
                              ELSE [kind |-> "cleanup", dry_run |-> dry_run,
                                    frameworks_merged |-> after.frameworks_merged,
                                    criteria_merged |-> after.criteria_merged,
                                    definitions_removed |-> after.definitions_removed]
            /\ llm_env' = NoEnv
            /\ llm_calls' = <<>>
            /\ UNCHANGED pending

\* handle() of cleanup_duplicates: the three steps run in one
\* transaction.atomic() block, which an exception rolls back
CleanupDuplicates(dry_runs, budgets) ==
    \E dry_run \in dry_runs, budget \in budgets :
        \E after \in {cleanup_duplicates(CurrentDb, dry_run, budget)} :
            /\ IF after.failed
                  THEN /\ UNCHANGED store
                       /\ response' = [kind |-> "cleanup_error", dry_run |-> dry_run,
                                       writes |-> budget]
                  ELSE /\ frameworks' = after.frameworks
                       /\ criteria' = after.criteria
                       /\ definitions' = after.definitions
                       /\ response' = [kind |-> "cleanup", dry_run |-> dry_run,
                             frameworks_merged |-> after.frameworks_merged,
                             criteria_merged |-> after.criteria_merged,
                             definitions_removed |-> after.definitions_removed]
            /\ llm_env' = NoEnv
            /\ llm_calls' = <<>>
            /\ UNCHANGED pending

StoreOf(db) == [frameworks |-> db.frameworks, criteria |-> db.criteria,
                definitions |-> db.definitions]

\* handle() of cleanup_duplicates (45-53) taken step by step, the response
\* keeping the store the run found and the store after each merge step
CleanupDuplicatesTraced(dry_runs, budgets) ==
    \E dry_run \in dry_runs, budget \in budgets :
        \E start \in {[frameworks |-> frameworks, criteria |-> criteria,
                       definitions |-> definitions,
                       budget |-> budget, failed |-> FALSE,
                       frameworks_merged |-> 0, criteria_merged |-> 0,
                       definitions_removed |-> 0]} :
        \E merged \in {cleanup_duplicate_frameworks(start, dry_run)} :
        \E merged2 \in {IF merged.failed THEN merged
                        ELSE cleanup_duplicate_criteria(merged, dry_run)} :
        \E after \in {IF merged2.failed THEN merged2
                      ELSE cleanup_duplicate_definitions(merged2, dry_run)} :
            /\ IF after.failed
                  THEN /\ UNCHANGED store
                       /\ response' = [kind |-> "cleanup_error",
                                       dry_run |-> dry_run, writes |-> budget]
                  ELSE /\ frameworks' = after.frameworks
                       /\ criteria' = after.criteria
                       /\ definitions' = after.definitions
                       /\ response' =
                             [kind |-> "cleanup", dry_run |-> dry_run,
                              frameworks_merged |-> after.frameworks_merged,
                              criteria_merged |-> after.criteria_merged,
                              definitions_removed |-> after.definitions_removed,
                              before |-> CurrentDb,
                              after_frameworks |-> StoreOf(merged),
                              after_criteria |-> StoreOf(merged2)]
            /\ llm_env' = NoEnv
            /\ llm_calls' = <<>>
            /\ UNCHANGED pending

\* a caller normalizes a name: both normalizers applied to one input
NormalizeNames(names) ==
    /\ \E s \in names :
          response' = [kind |-> "normalized", input |-> s,
                       name |-> normalize_name(s),
                       criterion_name |-> normalize_criterion_name(s)]
    /\ UNCHANGED <<store, llm_env, llm_calls, pending>>

\* the normalizers applied to what they returned
NormalizeAgain ==
    /\ response.kind = "normalized"
    /\ response' = [kind |-> "normalized_again", input |-> response.input,
                    first |-> [name |-> response.name,
                               criterion_name |-> response.criterion_name],
                    name |-> normalize_name(response.name),
                    criterion_name |-> normalize_criterion_name(response.criterion_name)]
    /\ UNCHANGED <<store, llm_env, llm_calls, pending>>

(***************************************************************************)
(* LLMComparisonEngine: provider detection and initialisation.             *)
(*                                                                         *)
(* The environment of one run is a record                                  *)
(*   settings    "configured" | "unconfigured" (Django settings)           *)
(*   forced      settings.LLM_PROVIDER, "" when not set                    *)
(*   libs        the provider libraries that import                        *)
(*   openai_key, use_openai   OPENAI_API_KEY present, USE_OPENAI = true    *)
(*   client_ok   the provider's client / model constructor succeeds        *)
(*   rewrite     outcome of the description-rewrite call(s) of each cell   *)
(*   aux         outcomes of the calls of the other sub-steps              *)
(***************************************************************************)
\* _detect_provider (llm_comparison.py 70-128)
DetectProvider(env) ==
    IF env.forced # "" THEN env.forced
    ELSE IF "huggingface" \in env.libs THEN "huggingface"
    ELSE IF "sentence_transformers" \in env.libs THEN "sentence_transformers"
    ELSE IF "openai" \in env.libs /\ env.openai_key /\ env.use_openai THEN "openai"
    ELSE "none"

NewEngine(provider) == [provider |-> provider, client |-> "unset", model |-> "none"]

Unavailable(engine) == [engine EXCEPT !.provider = "none", !.client = "none"]

\* _init_openai (130-145)
InitOpenai(engine, env) ==
    IF "openai" \notin env.libs THEN engine
    ELSE IF env.openai_key /\ env.client_ok THEN [engine EXCEPT !.client = "ready"]
    ELSE Unavailable(engine)

\* _init_ollama (147-194)
InitOllama(engine, env) ==
    IF "ollama" \notin env.libs THEN engine
    ELSE IF env.client_ok THEN [engine EXCEPT !.client = "ready"]
    ELSE Unavailable(engine)

\* _init_huggingface (196-232)
InitHuggingface(engine, env) ==
    IF "huggingface" \notin env.libs THEN engine
    ELSE IF env.client_ok THEN [engine EXCEPT !.client = "ready"]
    ELSE Unavailable(engine)

\* _init_sentence_transformers (234-244)
InitSentenceTransformers(engine, env) ==
    IF "sentence_transformers" \notin env.libs THEN engine
    ELSE IF env.client_ok THEN [engine EXCEPT !.model = "ready"]
    ELSE [engine EXCEPT !.provider = "none", !.model = "none"]

\* LLMComparisonEngine.__init__ (55-68)
ConstructEngine(env) ==
    LET engine == NewEngine(DetectProvider(env))
    IN  IF engine.provider = "openai" THEN InitOpenai(engine, env)
        ELSE IF engine.provider = "ollama" THEN InitOllama(engine, env)
        ELSE IF engine.provider = "huggingface" THEN InitHuggingface(engine, env)
        ELSE IF engine.provider = "sentence_transformers"
                THEN InitSentenceTransformers(engine, env)
        ELSE engine

GenerativeProviders == {"openai", "ollama", "huggingface"}

ClientReady(engine) == engine.client = "ready"

(***************************************************************************)
(* Provider calls.  A call outcome is "text" (a non-empty completion),     *)
(* "empty" (a completion that strips to '') or "error" (the call raises).  *)
(* A rewrite outcome "error_then_X" is: the first call raises and the      *)
(* call to the secondary model has outcome X.  For the other sub-steps     *)
(* "error" is: every attempt raises, and "error_then_X": the first attempt *)
(* raises and the second has outcome X.  "json_array" is a completion that *)
(* is valid JSON but holds no object, such as [].                          *)
(***************************************************************************)
RewriteOutcomes == {"text", "empty", "error_then_text", "error_then_empty",
                    "error_then_error"}
PrimaryOutcome(o) == IF o \in {"text", "empty"} THEN o ELSE "error"
FallbackOutcome(o) == IF o = "error_then_text" THEN "text"
                      ELSE IF o = "error_then_empty" THEN "empty" ELSE "error"

\* a call is keyed by <<criterion name, cell index>>; index 0 is the whole row
NoKey == <<(<<>>), 0>>

CallEntry(step, key, target, outcome) ==
    [step |-> step, key |-> key, target |-> target, outcome |-> outcome]

\* the attempts of one sub-step on Hugging Face, in the order of the code:
\* similarity 399 (chat_completion), 418 (text_generation), 436 (model
\* google/flan-t5-large); summary 558, 569 (same model and endpoint, plain
\* prompt), 582 (flan-t5); groups 1059, 1070, 1083 likewise; insights 650,
\* 659; unique insight 852, 861; overall insights 916, 925
HfTargets(step) ==
    IF step = "similarity" THEN <<"primary", "primary_text", "fallback">>
    ELSE IF step \in {"summary", "groups"} THEN <<"primary", "primary", "fallback">>
    ELSE <<"primary", "primary">>

\* OpenAI and Ollama make one call per sub-step (348, 370, 511, 533, 1012,
\* 1034); the embedding model is used once (289, 968)
Targets(engine, step) ==
    IF engine.provider = "huggingface" THEN HfTargets(step) ELSE <<"primary">>

\* the outcomes of the attempts that are made, n targets being there to try
AttemptOutcomes(o, n) ==
    IF o \in {"error", "error_then_error"} THEN [i \in 1..n |-> "error"]
    ELSE IF o \in {"error_then_text", "error_then_empty"}
        THEN IF n = 1 THEN <<"error">> ELSE <<"error", FallbackOutcome(o)>>
    ELSE <<o>>

AttemptCalls(step, key, targets, o) ==
    LET outs == AttemptOutcomes(o, Len(targets))
    IN  [i \in DOMAIN outs |-> CallEntry(step, key, targets[i], outs[i])]

\* what the sub-step is left with after its attempts
FinalOutcome(targets, o) ==
    LET outs == AttemptOutcomes(o, Len(targets)) IN outs[Len(outs)]

\* the completion that came back is not empty after strip()
NonEmpty(final) == final \in {"text", "json_array"}

\* the value of json.loads at 457 and 1102 for the completion that came back
ParsedJson(final) ==
    IF final = "text" THEN "found" ELSE IF final = "json_array" THEN "array" ELSE "empty"

\* a rewrite that returns text whatever became of its provider calls
generate_enhanced_description_unchecked(engine, key, outcome) ==
    IF engine.provider \in GenerativeProviders /\ ClientReady(engine)
       THEN [text |-> "llm text",
             calls |-> <<CallEntry("rewrite", key, "primary", PrimaryOutcome(outcome))>>]
       ELSE [text |-> "", calls |-> <<>>]

\* generate_enhanced_description (673-803): the text returned ("" for None
\* or an empty completion) and the provider calls made
generate_enhanced_description(engine, key, outcome) ==
    IF engine.provider \in {"openai", "ollama"} THEN
        IF ~ClientReady(engine) THEN [text |-> "", calls |-> <<>>]
        ELSE [text |-> IF PrimaryOutcome(outcome) = "text" THEN "llm text" ELSE "",
              calls |-> <<CallEntry("rewrite", key, "primary", PrimaryOutcome(outcome))>>]
    ELSE IF engine.provider = "huggingface" THEN
        IF ~ClientReady(engine) THEN [text |-> "", calls |-> <<>>]
        ELSE IF PrimaryOutcome(outcome) # "error" THEN
            [text |-> IF outcome = "text" THEN "llm text" ELSE "",
             calls |-> <<CallEntry("rewrite", key, "primary", outcome)>>]
        ELSE
            [text |-> IF FallbackOutcome(outcome) = "text" THEN "llm text" ELSE "",
             calls |-> <<CallEntry("rewrite", key, "primary", "error"),
                         CallEntry("rewrite", key, "fallback", FallbackOutcome(outcome))>>]
    ELSE [text |-> "", calls |-> <<>>]

PresentCount(row) ==
    Cardinality({i \in DOMAIN row.framework_data : row.framework_data[i].has_criterion})

\* the positions <<row, cell>> of comparison_data in row-major order
RECURSIVE Positions(_, _, _)
Positions(cd, r, i) ==
    IF r > Len(cd) THEN <<>>
    ELSE IF i > Len(cd[r].framework_data) THEN Positions(cd, r + 1, 1)
    ELSE <<(<<r, i>>)>> \o Positions(cd, r, i + 1)

PresentPositions(cd) ==
    {p \in SeqRange(Positions(cd, 1, 1)) : cd[p[1]].framework_data[p[2]].has_criterion}

\* the rewrite loop (llm_comparison.py 1164-1192); keys stand for
\* f"{criterion_name}__{fw_idx}", which is injective on (name, index)
RECURSIVE RewriteLoop(_, _, _, _, _, _)
RewriteLoop(engine, cd, nfw, rewrite, todo, acc) ==
    IF todo = <<>> THEN acc
    ELSE LET p == Head(todo)
             fw_data == cd[p[1]].framework_data[p[2]]
             key == <<cd[p[1]].name, p[2]>>
         IN  IF fw_data.has_criterion /\ p[2] <= nfw
                THEN LET r == generate_enhanced_description(engine, key, rewrite[p])
                     IN  RewriteLoop(engine, cd, nfw, rewrite, Tail(todo),
                            [enhanced_descriptions |->
                                IF r.text # ""
                                   THEN acc.enhanced_descriptions \cup {key}
                                   ELSE acc.enhanced_descriptions,
                             calls |-> acc.calls \o r.calls])
                ELSE RewriteLoop(engine, cd, nfw, rewrite, Tail(todo), acc)


\* Calls made while the engine is constructed: the Ollama availability probe
\* of _detect_provider (89-111, ollama.list()) and the connection test of
\* _init_ollama (152).  They are no completion requests.
ConstructionCalls(env) ==
    (IF env.forced = "" /\ "huggingface" \notin env.libs /\ "ollama" \in env.libs
        THEN <<CallEntry("probe", NoKey, "ollama", IF env.client_ok THEN "text" ELSE "error")>>
        ELSE <<>>)
    \o
    (IF DetectProvider(env) = "ollama" /\ "ollama" \in env.libs
        THEN <<CallEntry("probe", NoKey, "ollama", IF env.client_ok THEN "text" ELSE "error")>>
        ELSE <<>>)

\* find_semantic_similarities (246-462): "found" for a non-empty mapping
find_semantic_similarities(engine, cd, outcome) ==
    LET targets == Targets(engine, "similarity")
        calls == AttemptCalls("similarity", NoKey, targets, outcome)
        final == FinalOutcome(targets, outcome)
    IN  IF engine.provider = "sentence_transformers" THEN
            IF engine.model # "ready" \/ cd = <<>> THEN [value |-> "empty", calls |-> <<>>]
            ELSE [value |-> IF final = "text" THEN "found" ELSE "empty", calls |-> calls]
        ELSE IF engine.provider \in GenerativeProviders THEN
            IF Len(cd) < 2 \/ ~ClientReady(engine) THEN [value |-> "empty", calls |-> <<>>]
            ELSE [value |-> ParsedJson(final), calls |-> calls]
        ELSE [value |-> "empty", calls |-> <<>>]

\* cells that generate_comparison_summary keeps (473-482)
Describable(row) ==
    {i \in DOMAIN row.framework_data :
        /\ row.framework_data[i].has_criterion
        /\ (row.framework_data[i].description # <<>>
            \/ row.framework_data[i].definitions # <<>>)}

\* generate_comparison_summary (464-599)
generate_comparison_summary(engine, row, outcome) ==
    IF Cardinality(Describable(row)) < 2 THEN [text |-> "", calls |-> <<>>]
    ELSE IF engine.provider \in GenerativeProviders /\ ClientReady(engine)
        THEN [text |-> IF NonEmpty(FinalOutcome(Targets(engine, "summary"), outcome))
                          THEN "llm text" ELSE "",
              calls |-> AttemptCalls("summary", <<row.name, 0>>,
                                     Targets(engine, "summary"), outcome)]
    ELSE [text |-> "", calls |-> <<>>]

\* generate_criterion_insights (601-671): only the Hugging Face branch calls
generate_criterion_insights(engine, row, outcome) ==
    IF PresentCount(row) < 2 THEN [text |-> "", calls |-> <<>>]
    ELSE IF engine.provider = "huggingface" /\ ClientReady(engine)
        THEN [text |-> IF NonEmpty(FinalOutcome(Targets(engine, "insight"), outcome))
                          THEN "llm text" ELSE "",
              calls |-> AttemptCalls("insight", <<row.name, 0>>,
                                     Targets(engine, "insight"), outcome)]
    ELSE [text |-> "", calls |-> <<>>]

\* generate_unique_criterion_insight (805-873)
generate_unique_criterion_insight(engine, row, nfw, outcome) ==
    LET present == {i \in DOMAIN row.framework_data : row.framework_data[i].has_criterion}
        framework_idx == IF present = {} THEN 0
                         ELSE CHOOSE i \in present : \A j \in present : i <= j
    IN  IF framework_idx = 0 \/ framework_idx > nfw THEN [text |-> "", calls |-> <<>>]
        ELSE IF engine.provider = "huggingface" /\ ClientReady(engine)
            THEN [text |-> IF NonEmpty(FinalOutcome(Targets(engine, "unique"), outcome))
                              THEN "llm text" ELSE "",
                  calls |-> AttemptCalls("unique", <<row.name, 0>>,
                                         Targets(engine, "unique"), outcome)]
        ELSE [text |-> "", calls |-> <<>>]

\* a summaries loop that gives a row up when its summary call has failed
RECURSIVE SummaryLoopAborting(_, _, _, _)
SummaryLoopAborting(engine, rows, aux, acc) ==
    IF rows = <<>> THEN acc
    ELSE LET row == Head(rows)
             summary == generate_comparison_summary(engine, row, aux.summary)
             failed == \E k \in DOMAIN summary.calls : summary.calls[k].outcome = "error"
             insight == IF failed THEN [text |-> "", calls |-> <<>>]
                        ELSE generate_criterion_insights(engine, row, aux.insight)
         IN  SummaryLoopAborting(engine, Tail(rows), aux,
                [summaries |-> IF summary.text # "" THEN acc.summaries \cup {row.name}
                               ELSE acc.summaries,
                 insights |-> IF insight.text # "" THEN acc.insights \cup {row.name}
                              ELSE acc.insights,
                 calls |-> acc.calls \o summary.calls \o insight.calls])

\* the summaries loop (llm_comparison.py 1197-1219)
RECURSIVE SummaryLoop(_, _, _, _)
SummaryLoop(engine, rows, aux, acc) ==
    IF rows = <<>> THEN acc
    ELSE LET row == Head(rows)
             summary == generate_comparison_summary(engine, row, aux.summary)
             insight == generate_criterion_insights(engine, row, aux.insight)
         IN  SummaryLoop(engine, Tail(rows), aux,
                [summaries |-> IF summary.text # "" THEN acc.summaries \cup {row.name}
                               ELSE acc.summaries,
                 insights |-> IF insight.text # "" THEN acc.insights \cup {row.name}
                              ELSE acc.insights,
                 calls |-> acc.calls \o summary.calls \o insight.calls])

UniqueInsightLimit == 10

\* a slice that keeps the whole list
TakeAll(rows, n) == rows

\* rows[:n] (1227)
Take(rows, n) == SubSeq(rows, 1, IF Len(rows) < n THEN Len(rows) ELSE n)

\* the unique-criteria loop (1223-1238)
RECURSIVE UniqueLoop(_, _, _, _, _)
UniqueLoop(engine, rows, nfw, aux, acc) ==
    IF rows = <<>> THEN acc
    ELSE LET row == Head(rows)
             insight == generate_unique_criterion_insight(engine, row, nfw, aux.unique)
         IN  UniqueLoop(engine, Tail(rows), nfw, aux,
                [acc EXCEPT !.insights = IF insight.text # "" THEN @ \cup {row.name} ELSE @,
                            !.calls = @ \o insight.calls])

\* a run that records a summary and an insight for every row it was given
SummariesForEveryRow(engine, cd, nfw, aux) ==
    [summaries |-> {cd[r].name : r \in DOMAIN cd},
     insights |-> {cd[r].name : r \in DOMAIN cd},
     calls |-> <<>>]

\* the summaries and insights of the run (1196-1238): rows that two or more
\* frameworks have are summarized, the first rows that one framework has
\* get the unique-criterion insight
SummariesAndInsights(engine, cd, nfw, aux) ==
    LET HasSeveral(row) == PresentCount(row) >= 2
        HasOne(row) == PresentCount(row) = 1
        criteria_to_summarize == SelectSeq(cd, HasSeveral)
        unique_criteria == SelectSeq(cd, HasOne)
        summ == SummaryLoop(engine, criteria_to_summarize, aux,
                            [summaries |-> {}, insights |-> {}, calls |-> <<>>])
        uniq == UniqueLoop(engine,
                           Take(unique_criteria, UniqueInsightLimit),
                           nfw, aux,
                           [insights |-> summ.insights, calls |-> <<>>])
    IN  [summaries |-> summ.summaries,
         insights |-> uniq.insights,
         calls |-> summ.calls \o uniq.calls]

\* group_related_criteria (939-1107)
group_related_criteria(engine, cd, outcome) ==
    IF Len(cd) < 2 THEN [value |-> "empty", calls |-> <<>>]
    ELSE IF engine.provider = "sentence_transformers" /\ engine.model = "ready"
        THEN [value |-> IF FinalOutcome(Targets(engine, "groups"), outcome) = "text"
                           THEN "found" ELSE "empty",
              calls |-> AttemptCalls("groups", NoKey, Targets(engine, "groups"), outcome)]
    ELSE IF engine.provider \in GenerativeProviders /\ ClientReady(engine)
        THEN [value |-> ParsedJson(FinalOutcome(Targets(engine, "groups"), outcome)),
              calls |-> AttemptCalls("groups", NoKey, Targets(engine, "groups"), outcome)]
    ELSE [value |-> "empty", calls |-> <<>>]

\* generate_overall_insights (875-937)
generate_overall_insights(engine, outcome) ==
    IF engine.provider = "huggingface" /\ ClientReady(engine)
        THEN [text |-> IF NonEmpty(FinalOutcome(Targets(engine, "overall"), outcome))
                          THEN "llm text" ELSE "",
              calls |-> AttemptCalls("overall", NoKey, Targets(engine, "overall"), outcome)]
    ELSE [text |-> "", calls |-> <<>>]

\* a merge that stores the rewritten text as the description of the cell
EnhanceCellOverwriting(fw_data, key, enhanced_descriptions) ==
    IF key \in enhanced_descriptions
       THEN [has_llm_enhancement |-> TRUE]
            @@ [fw_data EXCEPT !.description = <<"l", "l", "m">>]
       ELSE [has_llm_enhancement |-> FALSE] @@ fw_data

\* the merge of enhanced_descriptions into a copy of comparison_data (1272-1292)
EnhanceCell(fw_data, key, enhanced_descriptions) ==
    IF key \in enhanced_descriptions
       THEN [llm_description |-> "llm text", has_llm_enhancement |-> TRUE] @@ fw_data
       ELSE [has_llm_enhancement |-> FALSE] @@ fw_data

MergeEnhanced(cd, enhanced_descriptions) ==
    [r \in DOMAIN cd |->
        [cd[r] EXCEPT !.framework_data =
            [i \in DOMAIN cd[r].framework_data |->
                EnhanceCell(cd[r].framework_data[i], <<cd[r].name, i>>,
                            enhanced_descriptions)]]]

\* The dicts behind comparison_data as objects: <<"caller", r, 0>> is the
\* dict of row r and <<"caller", r, i>> the dict of its i-th cell; a row
\* dict holds the addresses of its cells.
CallerObjects(cd) ==
    [a \in UNION {{<<"caller", r, i>> : i \in 0..Len(cd[r].framework_data)} :
                    r \in DOMAIN cd} |->
        IF a[3] = 0
           THEN [cd[a[2]] EXCEPT !.framework_data =
                    [i \in DOMAIN @ |-> <<"caller", a[2], i>>]]
           ELSE cd[a[2]].framework_data[a[3]]]

\* a merge that writes into the dict it was given
CopyInPlace(a) == a

\* fw_data.copy() (1278) and criterion.copy() (1290): a new dict
CopyOf(a) == <<"copy", a[2], a[3]>>

\* the objects after the loop at 1272-1292: every assignment of the loop
\* (1283, 1284, 1286, 1291) goes to the dict that copy() returned
ObjectsAfterMerge(cd, enhanced_descriptions) ==
    LET objects == CallerObjects(cd)
        written ==
           [b \in {CopyOf(a) : a \in DOMAIN objects} |->
               LET a == <<"caller", b[2], b[3]>>
               IN  IF a[3] = 0
                      THEN [objects[a] EXCEPT !.framework_data =
                               [i \in DOMAIN @ |-> CopyOf(@[i])]]
                      ELSE EnhanceCell(objects[a], <<cd[a[2]].name, a[3]>>,
                                       enhanced_descriptions)]
    IN  written @@ objects

\* a list of row dicts read through their addresses
ReadRows(objects, rows) ==
    [r \in DOMAIN rows |->
        [objects[rows[r]] EXCEPT !.framework_data =
            [i \in DOMAIN @ |-> objects[@[i]]]]]

\* the list the caller passed, as the caller sees it after the loop
CallerAfterMerge(cd, enhanced_descriptions) ==
    ReadRows(ObjectsAfterMerge(cd, enhanced_descriptions),
             [r \in DOMAIN cd |-> <<"caller", r, 0>>])

\* a no-provider result that drops the rows it was given
NoProviderResultWithoutRows(cd) ==
    [enhanced |-> FALSE, comparison_data |-> <<>>, semantic_similarities |-> "empty",
     summaries |-> {}, groups |-> "empty"]

\* the result when no provider is available (1127-1135)
NoProviderResult(cd) ==
    [enhanced |-> FALSE, comparison_data |-> cd, semantic_similarities |-> "empty",
     summaries |-> {}, groups |-> "empty"]

\* a failure result that drops the rows it was given
FailedResultWithoutRows(cd, e) ==
    [enhanced |-> FALSE, comparison_data |-> <<>>, semantic_similarities |-> "empty",
     summaries |-> {}, groups |-> "empty", error |-> e]

\* the result of the top-level exception handler (1305-1316)
FailedResult(cd, e) ==
    [enhanced |-> FALSE, comparison_data |-> cd, semantic_similarities |-> "empty",
     summaries |-> {}, groups |-> "empty", error |-> e]

\* enhance_comparison_with_llm (1110-1316): the result, the provider calls and
\* the caller's comparison_data as it is after the call
enhance_comparison_with_llm(cd, nfw, env) ==
    IF env.settings # "configured"
       THEN [result |-> FailedResult(cd, "ImproperlyConfigured"), calls |-> <<>>,
             argument |-> cd]
    ELSE
    LET engine == ConstructEngine(env)
        built == ConstructionCalls(env)
    IN  IF engine.provider = "none"
           THEN [result |-> NoProviderResult(cd), calls |-> built, argument |-> cd]
        ELSE
        LET sim == find_semantic_similarities(engine, cd, env.aux.similarity)
            rew == RewriteLoop(engine, cd, nfw, env.rewrite, Positions(cd, 1, 1),
                               [enhanced_descriptions |-> {}, calls |-> <<>>])
            si == SummariesAndInsights(engine, cd, nfw, env.aux)
            grp == group_related_criteria(engine, cd, env.aux.groups)
            ovr == generate_overall_insights(engine, env.aux.overall)
        IN  [result |->
                [enhanced |-> TRUE,
                 comparison_data |-> MergeEnhanced(cd, rew.enhanced_descriptions),
                 semantic_similarities |-> sim.value,
                 summaries |-> si.summaries,
                 insights |-> si.insights,
                 overall_insights |-> ovr.text,
                 groups |-> grp.value,
                 provider |-> engine.provider],
             calls |-> built \o sim.calls \o rew.calls \o si.calls
                       \o grp.calls \o ovr.calls,
             argument |-> CallerAfterMerge(cd, rew.enhanced_descriptions)]


(***************************************************************************)
(* compare_frameworks: the whole view.                                     *)
(***************************************************************************)
\* views.py 233-268: what the view makes of the enhancement result
ViewEnhancement(use_llm, llm_result) ==
    IF ~use_llm THEN [enhanced |-> FALSE, disabled |-> TRUE]
    ELSE IF llm_result.enhanced THEN llm_result
    ELSE IF "error" \in DOMAIN llm_result /\ llm_result.error # ""
        THEN llm_result
    ELSE [error |-> "Unknown error"] @@ llm_result

\* the response of compare_frameworks; request, criteria_names and llm_result
\* are kept beside the template context
CompareResponse(base, raw_ids, use_llm, env) ==
        IF base.kind = "form"
           THEN [kind |-> "form", request |-> raw_ids, calls |-> <<>>]
        ELSE
        LET run == IF use_llm
                      THEN enhance_comparison_with_llm(base.comparison_data,
                                                       Len(base.selected_frameworks), env)
                      ELSE [result |-> [enhanced |-> FALSE], calls |-> <<>>,
                            argument |-> base.comparison_data]
            llm_enhancement == ViewEnhancement(use_llm, run.result)
        IN  [kind |-> "comparison",
             request |-> raw_ids,
             use_llm |-> use_llm,
             selected_frameworks |-> base.selected_frameworks,
             criteria_names |-> base.criteria_names,
             comparison_data |-> IF use_llm /\ run.result.enhanced
                                    THEN run.result.comparison_data
                                    ELSE base.comparison_data,
             similarities |-> base.similarities,
             differences |-> base.differences,
             llm_result |-> run.result,
             llm_argument |-> run.argument,
             llm_enhancement |-> llm_enhancement,
             calls |-> run.calls]

\* the environments of one enhancement run over comparison_data cd: env_pool
\* is a set of records [engines, rewrite, aux], each the product of engine
\* environments, per-cell rewrite outcomes and sub-step outcomes
LlmEnvs(cd, env_pool) ==
    UNION {{[settings |-> e.settings, forced |-> e.forced, libs |-> e.libs,
             openai_key |-> e.openai_key, use_openai |-> e.use_openai,
             client_ok |-> e.client_ok, rewrite |-> rw, aux |-> aux] :
               e \in p.engines, rw \in [PresentPositions(cd) -> p.rewrite],
               aux \in p.aux} : p \in env_pool}

\* a comparison view that discards the stored definitions it has read
CompareFrameworksSaving(id_pool, env_pool) ==
    \E raw_ids \in id_pool, use_llm \in BOOLEAN :
    \E base \in {BaseComparison(CurrentDb, raw_ids)} :
    \E env \in IF base.kind = "form" \/ ~use_llm
                  THEN {NoEnv}
                  ELSE LlmEnvs(base.comparison_data, env_pool) :
    \E r \in {CompareResponse(base, raw_ids, use_llm, env)} :
        /\ response' = [x \in DOMAIN r \ {"calls"} |-> r[x]]
        /\ llm_env' = env
        /\ llm_calls' = r.calls
        /\ UNCHANGED pending
        /\ definitions' = {}
        /\ UNCHANGED <<frameworks, criteria>>

CompareFrameworks(id_pool, env_pool) ==
    \E raw_ids \in id_pool, use_llm \in BOOLEAN :
    \E base \in {BaseComparison(CurrentDb, raw_ids)} :
    \E env \in IF base.kind = "form" \/ ~use_llm
                  THEN {NoEnv}
                  ELSE LlmEnvs(base.comparison_data, env_pool) :
    \E r \in {CompareResponse(base, raw_ids, use_llm, env)} :
        /\ response' = [x \in DOMAIN r \ {"calls"} |-> r[x]]
        /\ llm_env' = env
        /\ llm_calls' = r.calls
        /\ UNCHANGED pending
        /\ UNCHANGED store

(***************************************************************************)
(* compare_frameworks query by query.  The view runs in autocommit mode,   *)
(* with no transaction around its queries, so every query reads the store  *)
(* as committed at that moment; pending.stores collects the committed      *)
(* stores that exist between the first query and the response.             *)
(***************************************************************************)
\* views.py 90-121: the ids are parsed and counted against the store
CompareBegin(id_pool) ==
    /\ pending.phase \in {"idle", "done"}
    /\ \E raw_ids \in id_pool :
          LET parsed == ParseIds(raw_ids)
              found == {f \in frameworks : f.id \in SeqRange(parsed)}
              form == CompareResponse([kind |-> "form"], raw_ids, FALSE, NoEnv)
          IN  IF parsed = <<>>
                 THEN /\ response' = [x \in DOMAIN form \ {"calls"} |-> form[x]]
                      /\ llm_env' = NoEnv
                      /\ llm_calls' = <<>>
                      /\ pending' = Idle
                 ELSE /\ pending' =
                           [phase |-> "registry", request |-> raw_ids,
                            framework_ids |-> IF Cardinality(found) # Len(parsed)
                                                 THEN {f.id : f \in found}
                                                 ELSE SeqRange(parsed),
                            criteria_names |-> <<>>, selected |-> <<>>,
                            comparison_data |-> <<>>, stores |-> {CurrentDb}]
                      /\ UNCHANGED <<response, llm_env, llm_calls>>
    /\ UNCHANGED store

\* views.py 125-141: the query for the criterion names
CompareReadRegistry ==
    /\ pending.phase = "registry"
    /\ pending' = [pending EXCEPT
                      !.phase = "rows",
                      !.criteria_names = CriteriaNames(CurrentDb, pending.framework_ids)]
    /\ UNCHANGED <<store, response, llm_env, llm_calls>>

\* views.py 144-188: selected_frameworks is evaluated and the cell queries run
CompareReadRows ==
    /\ pending.phase = "rows"
    /\ \E selected \in {OrderFrameworks({f \in frameworks :
                                            f.id \in pending.framework_ids})} :
          pending' = [pending EXCEPT
                        !.phase = "classify",
                        !.selected = selected,
                        !.comparison_data =
                           BuildRows(CurrentDb, selected, pending.criteria_names,
                                     {}, <<>>)]
    /\ UNCHANGED <<store, response, llm_env, llm_calls>>

\* views.py 211-279: the counting queries, then the response (use_llm off)
CompareFinish ==
    /\ pending.phase = "classify"
    /\ LET none == [similarities |-> <<>>, differences |-> <<>>]
           classes == IF Len(pending.selected) > 1
                         THEN Classify(CurrentDb, pending.selected,
                                       pending.criteria_names, none)
                         ELSE none
           base == [kind |-> "comparison",
                    selected_frameworks |-> pending.selected,
                    criteria_names |-> pending.criteria_names,
                    comparison_data |-> pending.comparison_data,
                    similarities |-> classes.similarities,
                    differences |-> classes.differences]
       IN  \E r \in {CompareResponse(base, pending.request, FALSE, NoEnv)} :
              /\ response' = [x \in DOMAIN r \ {"calls"} |-> r[x]]
              /\ llm_env' = NoEnv
              /\ llm_calls' = r.calls
    /\ pending' = [pending EXCEPT !.phase = "done"]
    /\ UNCHANGED store

\* an import that commits at any moment, also between two queries of a
\* compare request
ImportDuringRequest(docs, limits) ==
    /\ ImportCommit(docs, limits)
    /\ pending' = IF pending.phase \in {"idle", "done"} THEN Idle
                  ELSE [pending EXCEPT !.stores = @ \cup
                          {[frameworks |-> frameworks', criteria |-> criteria',
                            definitions |-> definitions']}]

(***************************************************************************)
(* Inputs and specifications.                                              *)
(***************************************************************************)
Row(f, c, d) == [framework |-> f, criterion |-> c, definition |-> d]

\* tables of one data row whose Definition cell is the first letter of the
\* Framework cell, and of such a row followed by a row that continues the
\* same framework (empty Framework cell)
Tables(framework_cells, criterion_cells, more_rows) ==
    LET first == {Row(f, c, <<f[1]>>) : f \in framework_cells, c \in criterion_cells}
    IN  {<<r>> : r \in first} \cup
        {<<r, m>> : r \in {x \in first : x.criterion = <<"a", " ", "b">>},
                    m \in more_rows}

AllText == [similarity |-> "text", summary |-> "text", insight |-> "text",
            unique |-> "text", groups |-> "text", overall |-> "text"]

EngineEnv(settings, forced, libs, openai_key, use_openai, client_ok) ==
    [settings |-> settings, forced |-> forced, libs |-> libs,
     openai_key |-> openai_key, use_openai |-> use_openai, client_ok |-> client_ok]

Unconfigured == EngineEnv("unconfigured", "", {}, FALSE, FALSE, FALSE)
NoLibraries == EngineEnv("configured", "", {}, FALSE, FALSE, FALSE)
HuggingfaceReady == EngineEnv("configured", "", {"huggingface"}, FALSE, FALSE, TRUE)

Init ==
    /\ frameworks = {}
    /\ criteria = {}
    /\ definitions = {}
    /\ response = [kind |-> "none"]
    /\ llm_env = NoEnv
    /\ llm_calls = <<>>
    /\ pending = Idle

\* --- the comparison view over imported documents ---
FrameworkCells == {<<"P", "1", "9", "9", "9">>, <<"Q", "1", "9", "9", "9">>,
                   <<"N", "2", "0", "0", "5">>, <<"M">>}
CriterionCells == {<<"A", " ", "b">>, <<"a", " ", "b">>, <<"a", " ", " ", "b">>,
                   <<" ", "a", " ", "b">>, <<>>}
MoreRows == {Row(<<>>, <<"A", " ", "b">>, <<>>)}
Docs == Tables(FrameworkCells, CriterionCells, MoreRows)

IdPool == {<<(<<"x">>)>>, <<(<<"1">>)>>, <<(<<"2">>), (<<"1">>)>>,
           <<(<<"1">>), (<<"2">>), (<<"3">>)>>}
ViewEnvs == {[engines |-> {NoLibraries}, rewrite |-> {"text"}, aux |-> {AllText}]}

Import == ImportDocx(Docs, Limits)
Compare == CompareFrameworks(IdPool, ViewEnvs)

Next == Import \/ Compare

Spec == Init /\ [][Next]_vars

\* --- the two-framework example: A (2019) and B (2021) ---
A2019 == <<"A", "2", "0", "1", "9">>
B2021 == <<"B", "2", "0", "2", "1">>
Completeness == <<"C", "o", "m", "p", "l", "e", "t", "e", "n", "e", "s", "s">>
completeness == <<"c", "o", "m", "p", "l", "e", "t", "e", "n", "e", "s", "s">>
Accuracy == <<"A", "c", "c", "u", "r", "a", "c", "y">>

ScenarioDocs == {<<Row(A2019, Completeness, <<"X">>)>>,
                 <<Row(A2019, Accuracy, <<"Y">>)>>,
                 <<Row(B2021, completeness, <<"Z">>)>>,
                 <<Row(A2019, Completeness, <<"X">>), Row(<<>>, Accuracy, <<"Y">>)>>,
                 <<Row(A2019, Accuracy, <<"Y">>), Row(<<>>, Completeness, <<"X">>)>>}
ScenarioIds == {<<(<<"1">>)>>, <<(<<"1">>), (<<"2">>)>>, <<(<<"2">>), (<<"1">>)>>}

ImportScenario == ImportDocx(ScenarioDocs, Limits)
CompareScenario == CompareFrameworks(ScenarioIds, ViewEnvs)

NextScenario == ImportScenario \/ CompareScenario

SpecScenario == Init /\ [][NextScenario]_vars

\* --- the enhancement run under the outcomes of its provider calls ---
AllEmpty == [similarity |-> "empty", summary |-> "empty", insight |-> "empty",
             unique |-> "empty", groups |-> "empty", overall |-> "empty"]
AllError == [similarity |-> "error", summary |-> "error", insight |-> "error",
             unique |-> "error", groups |-> "error", overall |-> "error"]

OpenaiReady == EngineEnv("configured", "openai", {"openai"}, TRUE, TRUE, TRUE)
SentenceTransformersReady ==
    EngineEnv("configured", "", {"sentence_transformers"}, FALSE, FALSE, TRUE)
HuggingfaceForcedMissing == EngineEnv("configured", "huggingface", {}, FALSE, FALSE, FALSE)

LlmDocs == Tables({<<"P", "1", "9", "9", "9">>}, {<<"a", " ", "b">>}, {})
           \cup Tables({<<"Q", "2", "0", "0", "5">>}, {<<"a", " ", "b">>, <<"c">>}, {})
LlmIds == {<<(<<"1">>)>>, <<(<<"1">>), (<<"2">>)>>}
LlmSweep ==
    {[engines |-> {HuggingfaceReady}, rewrite |-> RewriteOutcomes, aux |-> {AllText}],
     [engines |-> {HuggingfaceReady}, rewrite |-> {"text"}, aux |-> {AllEmpty, AllError}],
     [engines |-> {OpenaiReady, SentenceTransformersReady, HuggingfaceForcedMissing,
                   NoLibraries, Unconfigured},
      rewrite |-> {"text", "error_then_error"}, aux |-> {AllText}]}

ImportLlm == ImportDocx(LlmDocs, Limits)
CompareLlm == CompareFrameworks(LlmIds, LlmSweep)

NextLlm == ImportLlm \/ CompareLlm

SpecLlm == Init /\ [][NextLlm]_vars

\* --- engine construction under the configurations of the deployment ---
Providers == {"openai", "ollama", "huggingface", "sentence_transformers"}

\* LLM_PROVIDER unset, set to a provider or set to an unknown name; any set
\* of provider libraries importable
EngineEnvs ==
    {EngineEnv("configured", forced, libs, openai[1], openai[2], client_ok) :
        forced \in {""} \cup Providers \cup {"bogus"},
        libs \in SUBSET Providers,
        openai \in {<<FALSE, FALSE>>, <<TRUE, FALSE>>, <<TRUE, TRUE>>},
        client_ok \in BOOLEAN}
    \cup {Unconfigured}

EngineDocs == Tables({<<"P", "1", "9", "9", "9">>}, {<<"c">>}, {})
EngineSweep == {[engines |-> EngineEnvs, rewrite |-> {"text"}, aux |-> {AllText}]}

ImportEngine == ImportDocx(EngineDocs, Limits)
CompareEngine == CompareFrameworks({<<(<<"1">>)>>}, EngineSweep)

NextEngine == ImportEngine \/ CompareEngine

SpecEngine == Init /\ [][NextEngine]_vars

\* --- requests whose framework ids are invalid, repeated or unknown ---
RequestDocs == {<<Row(A2019, <<"c">>, <<"X">>)>>,
                <<Row(B2021, <<"c">>, <<"Y">>)>>,
                <<Row(B2021, <<"d">>, <<>>)>>}
RequestIds == {<<(<<"x">>)>>, <<(<<"9">>)>>, <<(<<"²">>)>>,
               <<(<<"1">>), (<<"x">>)>>, <<(<<"x">>), (<<"1">>)>>,
               <<(<<"1">>), (<<"9">>)>>, <<(<<"1">>), (<<"1">>)>>,
               <<(<<"0", "1">>), (<<"2">>)>>,
               <<(<<"1">>), (<<"²">>)>>,
               <<(<<"2">>), (<<"x">>), (<<"1">>), (<<"9">>)>>}

ImportRequest == ImportDocx(RequestDocs, Limits)
CompareRequest == CompareFrameworks(RequestIds, ViewEnvs)

NextRequest == ImportRequest \/ CompareRequest

SpecRequest == Init /\ [][NextRequest]_vars

\* --- one criterion with several definition texts ---
DefinitionCells == {<<"a", " ", "b">>, <<"a", " ", " ", "b">>, <<"A", " ", "b">>,
                    <<"A", " ", " ", "B">>, <<"d">>}
DefinitionDocs == {<<Row(<<"P", "1", "9", "9", "9">>, <<"c">>, d)>> : d \in DefinitionCells}

ImportDefinitionTexts == ImportDocx(DefinitionDocs, Limits)
CompareDefinitions == CompareFrameworks({<<(<<"1">>)>>}, ViewEnvs)

NextDefinitions == ImportDefinitionTexts \/ CompareDefinitions

SpecDefinitions == Init /\ [][NextDefinitions]_vars

\* --- cleanup_duplicates over criteria with redundant definitions ---
LongText(n) == [i \in 1..n |-> "a"]
CleanupDocs ==
    {<<Row(<<"P", "1", "9", "9", "9">>, <<"c">>, d)>> :
        d \in {LongText(1), LongText(11), LongText(21), <<"A">>, <<"x", "a">>}}
    \cup {<<Row(<<"P", "1", "9", "9", "9">>, <<"C">>, LongText(11))>>}

ImportCleanup == ImportDocx(CleanupDocs, Limits)
Cleanup == CleanupDuplicates(BOOLEAN, {NoFailure})

NextCleanup == ImportCleanup \/ Cleanup

SpecCleanup == Init /\ [][NextCleanup]_vars

\* --- cleanup_duplicates over duplicate frameworks and criteria, with
\*     database writes that may raise ---
MergeDocs ==
    {<<Row(<<"P", "1", "9", "9", "9">>, <<"c">>, <<"a">>)>>,
     <<Row(<<"P", "1", "9", "9", "9">>, <<"C">>, <<"a", "b">>)>>,
     <<Row(<<"p", "1", "9", "9", "9">>, <<"c">>, <<"a">>)>>,
     <<Row(<<"p", "1", "9", "9", "9">>, <<"c">>, <<"a", "b">>)>>,
     <<Row(<<"p", "1", "9", "9", "9">>, <<"d">>, <<"A">>)>>}
FailurePoints == {NoFailure, 0, 2}

ImportMerge == ImportDocx(MergeDocs, Limits)
CleanupMerge == CleanupDuplicates(BOOLEAN, FailurePoints)

NextMerge == ImportMerge \/ CleanupMerge

SpecMerge == Init /\ [][NextMerge]_vars

\* --- the normalizers over short strings ---
MaxNameLen == 3
NameChars == {" ", "a", "B", "z"}
RECURSIVE StringsUpTo(_)
StringsUpTo(n) ==
    IF n = 0 THEN {<<>>}
    ELSE LET shorter == StringsUpTo(n - 1)
         IN  shorter \cup {Append(s, c) : s \in shorter, c \in NameChars}
Names == StringsUpTo(MaxNameLen)
         \cup {None, <<"a", " ", " ", " ", "b">>, <<" ", "a", " ", " ", "B", " ">>}

Normalize == NormalizeNames(Names)

NextNormalize == Normalize \/ NormalizeAgain

SpecNormalize == Init /\ [][NextNormalize]_vars

\* --- a compare request that runs while imports commit ---
ConcurrentDocs == {<<Row(A2019, <<"c">>, <<"X">>)>>,
                   <<Row(B2021, <<"c">>, <<"Y">>)>>,
                   <<Row(B2021, <<"c">>, <<"Y">>), Row(<<>>, <<"d">>, <<"Z">>)>>}
ConcurrentIds == {<<(<<"1">>)>>, <<(<<"1">>), (<<"2">>)>>, <<(<<"x">>)>>}

ImportConcurrent == ImportDuringRequest(ConcurrentDocs, Limits)
BeginConcurrent == CompareBegin(ConcurrentIds)

NextConcurrent ==
    \/ ImportConcurrent
    \/ BeginConcurrent
    \/ CompareReadRegistry
    \/ CompareReadRows
    \/ CompareFinish

SpecConcurrent == Init /\ [][NextConcurrent]_vars

\* --- the enhancement run with one sub-step failing at a time ---
Steps == {"similarity", "summary", "insight", "unique", "groups", "overall"}
OneStepFails ==
    {[AllText EXCEPT ![step] = o] :
        step \in Steps, o \in {"error", "empty", "error_then_text"}}
NoJsonObject == {[AllText EXCEPT ![step] = "json_array"] : step \in {"similarity", "groups"}}
SubstepSweep ==
    {[engines |-> {HuggingfaceReady, OpenaiReady, SentenceTransformersReady},
      rewrite |-> {"text"},
      aux |-> {AllText} \cup OneStepFails \cup NoJsonObject],
     [engines |-> {HuggingfaceReady},
      rewrite |-> {"text", "error_then_error"},
      aux |-> {[AllText EXCEPT !.summary = "error"]}]}

ImportSubsteps == ImportDocx(LlmDocs, Limits)
CompareSubsteps == CompareFrameworks(LlmIds, SubstepSweep)

NextSubsteps == ImportSubsteps \/ CompareSubsteps

SpecSubsteps == Init /\ [][NextSubsteps]_vars

\* --- a comparison with more unique criteria than the insight loop takes ---
ManyCriteria == 12
Letters == <<"a", "b", "c", "d", "e", "f", "g", "h", "i", "j", "k", "l", "m">>
\* a table of n rows for framework f: criteria a, b, c, ... in that order
LongTable(f, n) ==
    [i \in 1..n |-> Row(IF i = 1 THEN f ELSE <<>>, <<Letters[i]>>, <<"X">>)]
ManyDocs == {LongTable(<<"P", "1", "9", "9", "9">>, n) : n \in {2, 11, ManyCriteria}}
            \cup {<<Row(<<"Q", "2", "0", "0", "5">>, <<"a">>, <<"Y">>)>>,
                  <<Row(<<"Q", "2", "0", "0", "5">>, <<"z">>, <<"Y">>)>>}
ManyLimits == [frameworks |-> MaxFw, criteria |-> ManyCriteria + 1,
               definitions |-> ManyCriteria + 1]
ManyIds == {<<(<<"1">>)>>, <<(<<"2">>)>>, <<(<<"1">>), (<<"2">>)>>}
ManySweep ==
    {[engines |-> {HuggingfaceReady, OpenaiReady},
      rewrite |-> {"text"},
      aux |-> {[AllText EXCEPT !.unique = o] : o \in {"text", "empty", "error"}}]}

ImportMany == ImportDocx(ManyDocs, ManyLimits)
CompareMany == CompareFrameworks(ManyIds, ManySweep)

NextMany == ImportMany \/ CompareMany

SpecMany == Init /\ [][NextMany]_vars


(***************************************************************************)
(* import_document: parse_table and import_frameworks with duplicate       *)
(* detection, and the edit_framework view.  The frameworks these two       *)
(* write carry the paper title next to the name:                           *)
(*   Framework  [id, name, year, title]                                    *)
(* The columns of a table row that the stored rows have no field for       *)
(* (authors, objectives, reference, ...) are left out.                     *)
(***************************************************************************)
\* a value that Python takes as true where a year is tested (not None, not 0)
Truthy(year) == year # NoYear /\ year # 0

\* re.search(r'\((\d{4})\)', title): the first four digits between parentheses
YearInParentheses(title) ==
    LET starts == {i \in 1..(Len(title) - 5) :
                     /\ title[i] = "(" /\ title[i + 5] = ")"
                     /\ \A k \in 1..4 : IsDigit(title[i + k])}
    IN  IF starts = {} THEN NoYear
        ELSE LET i == CHOOSE a \in starts : \A b \in starts : a <= b
             IN  IntOf(SubSeq(title, i + 1, i + 4))

\* the year of a row: four digits of the year cell, else of the title
ExtractYear(year_str, title) ==
    LET year == IF year_str # <<>> THEN YearOfName(year_str) ELSE NoYear
    IN  IF Truthy(year) THEN year
        ELSE IF YearInParentheses(title) # NoYear
                THEN YearInParentheses(title) ELSE year

\* str(n) of a natural number
RECURSIVE StrOfInt(_)
StrOfInt(n) ==
    IF n < 10 THEN <<ASCII[n + 4]>>
    ELSE StrOfInt(n \div 10) \o <<ASCII[(n % 10) + 4]>>

StartsWith(s, prefix) ==
    Len(s) >= Len(prefix) /\ SubSeq(s, 1, Len(prefix)) = prefix

\* titles of rows that are headers of the document, not frameworks
HeaderPrefixes ==
    {<<"c", "o", "m", "p", "r", "e", "h", "e", "n", "s", "i", "v", "e">>,
     <<"t", "h", "e", " ", "f", "o", "l", "l", "o", "w", "i", "n", "g">>,
     <<"t", "a", "b", "l", "e", " ", "p", "r", "e", "s", "e", "n", "t">>,
     <<"t", "a", "b", "l", "e", " ">>,
     <<"f", "i", "g", "u", "r", "e", " ">>,
     <<"p", "a", "g", "e", " ">>}

MinTitleLen == 5

\* words of the dimensions cell that name no dimension
StopWords == {<<"r", "e", "a", "d">>, <<"a", "n", "d">>, <<"t", "h", "e">>, <<"n", "o", "n", "e">>, <<"n", "u", "l", "l">>}

\* dim.rstrip('.-()[]') over the characters of the model
RECURSIVE RStripBrackets(_)
RStripBrackets(s) ==
    IF s # <<>> /\ s[Len(s)] \in {"(", ")"}
       THEN RStripBrackets(SubSeq(s, 1, Len(s) - 1)) ELSE s

\* re.match(r'^[\d\s]+$', dim)
DigitsAndSpaces(s) == s # <<>> /\ \A i \in DOMAIN s : IsDigit(s[i]) \/ IsSpace(s[i])

QualityDimensionFrom == <<"Q", "u", "a", "l", "i", "t", "y", " ", "d", "i", "m", "e", "n", "s", "i", "o", "n", " ", "f", "r", "o", "m", " ">>

\* the criteria of one row from the items of its dimensions cell (the cell
\* split at commas and semicolons)
RECURSIVE ParseDimensions(_, _, _, _)
ParseDimensions(dim_list, seen_dimensions, definition_text, out) ==
    IF dim_list = <<>> THEN out
    ELSE LET stripped == Strip(CollapseWs(Head(dim_list)))
             kept == Len(stripped) > 2 /\ Lower(stripped) \notin StopWords
             cleaned == Strip(RStripBrackets(stripped))
             valid == kept /\ Len(cleaned) > 2 /\ ~DigitsAndSpaces(cleaned)
             dim == <<UpperChar(cleaned[1])>> \o Tail(cleaned)
         IN  IF valid /\ Lower(dim) \notin seen_dimensions
                THEN ParseDimensions(Tail(dim_list), seen_dimensions \cup {Lower(dim)},
                        definition_text,
                        Append(out, [name |-> dim,
                                          description |-> definition_text,
                                          category |-> <<>>,
                                          definitions |-> <<definition_text>>]))
                ELSE ParseDimensions(Tail(dim_list), seen_dimensions,
                                     definition_text, out)

\* one data row of a table with Title, Year, Dimensions and Abstract columns
ParseDocumentRow(row) ==
    LET title == Strip(row.title)
        year_str == Strip(row.year)
        abstract == Strip(row.abstract)
        year == ExtractYear(year_str, title)
        definition_text ==
            (IF abstract # <<>> THEN abstract ELSE QualityDimensionFrom \o title)
            \o (IF Truthy(year) THEN <<" ", "(">> \o StrOfInt(year) \o <<")">>
                ELSE <<>>)
    IN  IF Len(title) < MinTitleLen
           \/ \E prefix \in HeaderPrefixes : StartsWith(Lower(title), prefix)
           THEN <<>>
           ELSE << [name |-> title, year |-> year, title |-> title,
                    criteria |-> ParseDimensions(row.dimensions, {},
                                                 definition_text, <<>>)] >>

RECURSIVE parse_document_table(_)
parse_document_table(rows) ==
    IF rows = <<>> THEN <<>>
    ELSE ParseDocumentRow(Head(rows)) \o parse_document_table(Tail(rows))

\* QuerySet.first() under Framework.Meta.ordering
FirstFramework(S) == CHOOSE x \in S : \A y \in S \ {x} : FwBefore(x, y)

\* the stored framework a parsed one is merged into: {} when there is none
find_matching_framework(db, fw_data) ==
    LET name == Strip(fw_data.name)
        year == fw_data.year
        title == Strip(fw_data.title)
        normalized_name == normalize_loose(name)
        exact == {f \in db.frameworks : f.name = name}
        by_name == {f \in db.frameworks :
                      normalized_name # <<>> /\ normalize_loose(f.name) = normalized_name}
        by_title == {f \in db.frameworks :
                       Truthy(year) /\ title # <<>> /\ f.year = year /\ f.title = title}
        by_normalized_title ==
            {f \in db.frameworks :
               /\ Truthy(year) /\ title # <<>> /\ f.year = year
               /\ normalize_loose(f.title) = normalize_loose(title)}
    IN  IF exact # {} THEN {FirstFramework(exact)}
        ELSE IF by_name # {} THEN {FirstFramework(by_name)}
        ELSE IF by_title # {} THEN {FirstFramework(by_title)}
        ELSE IF by_normalized_title # {} THEN {FirstFramework(by_normalized_title)}
        ELSE {}

\* the stored framework after the non-empty, different values of the parsed
\* one have been written to it
merge_framework_data(framework, fw_data) ==
    LET title == Strip(fw_data.title)
        year1 == IF Truthy(fw_data.year) /\ framework.year # fw_data.year
                    THEN fw_data.year ELSE framework.year
        title1 == IF title # <<>> /\ (framework.title = <<>>
                                       \/ Strip(framework.title) # title)
                     THEN title ELSE framework.title
    IN  [framework EXCEPT !.year = year1, !.title = title1]

\* QuerySet iteration under Criterion.Meta.ordering
FirstCriterion(db, S) == CHOOSE x \in S : \A y \in S \ {x} : CritBefore(db, x, y)

\* the stored criterion of the framework with that name: {} when there is none
find_matching_criterion(db, framework_id, criterion_name) ==
    LET normalized_name == normalize_criterion_name(criterion_name)
        own == {c \in db.criteria : c.framework = framework_id}
        exact == {c \in own : c.name = criterion_name}
        by_name == {c \in own : normalize_criterion_name(c.name) = normalized_name}
    IN  IF normalized_name = <<>> THEN {}
        ELSE IF exact # {} THEN {FirstCriterion(db, exact)}
        ELSE IF by_name # {} THEN {FirstCriterion(db, by_name)}
        ELSE {}

\* a definition of the criterion equal to the text after normalization, or
\* containing it or contained in it with nearly the same length
KnownDefinition(db, crit_id, normalized_def) ==
    \E def_obj \in {d \in db.definitions : d.criterion = crit_id} :
        LET existing_normalized == normalize_loose(def_obj.definition_text)
            delta == Len(normalized_def) - Len(existing_normalized)
        IN  \/ existing_normalized = normalized_def
            \/ /\ Contains(normalized_def, existing_normalized)
                  \/ Contains(existing_normalized, normalized_def)
               /\ (IF delta < 0 THEN -delta ELSE delta) < NearDuplicateDelta

RECURSIVE ImportDocumentDefinitions(_, _, _)
ImportDocumentDefinitions(db, crit_id, texts) ==
    IF texts = <<>> THEN db
    ELSE LET definition_text == Strip(Head(texts))
             db1 == IF definition_text = <<>>
                       \/ KnownDefinition(db, crit_id, normalize_loose(definition_text))
                       THEN db
                       ELSE [db EXCEPT !.definitions = @ \cup
                               {[id |-> NextId(db.definitions), criterion |-> crit_id,
                                 definition_text |-> definition_text]}]
         IN  ImportDocumentDefinitions(db1, crit_id, Tail(texts))

\* the stored criterion after a longer description and a different category
\* of the parsed one have been written to it
UpdateCriterion(criterion, criterion_data) ==
    LET description == Strip(criterion_data.description)
        category == Strip(criterion_data.category)
        description1 ==
            IF description # <<>>
               /\ (criterion.description = <<>>
                   \/ Len(description) > Len(Strip(criterion.description)))
               THEN description ELSE criterion.description
        category1 ==
            IF category # <<>>
               /\ (criterion.category = <<>> \/ Strip(criterion.category) # category)
               THEN category ELSE criterion.category
    IN  [criterion EXCEPT !.description = description1, !.category = category1]

RECURSIVE ImportDocumentCriteria(_, _, _, _)
ImportDocumentCriteria(db, fw_id, cdata, idx) ==
    IF cdata = <<>> THEN db
    ELSE LET criterion_data == Head(cdata)
             criterion_name == Strip(criterion_data.name)
             normalized_name == normalize_criterion_name(criterion_name)
             found == find_matching_criterion(db, fw_id, criterion_name)
             crit_id == IF found = {} THEN NextId(db.criteria)
                        ELSE (CHOOSE c \in found : TRUE).id
             db1 == IF found = {} THEN
                       [db EXCEPT !.criteria = @ \cup
                          {[id |-> crit_id, framework |-> fw_id,
                            name |-> normalized_name,
                            description |-> Strip(criterion_data.description),
                            category |-> Strip(criterion_data.category),
                            order |-> idx]}]
                    ELSE [db EXCEPT !.criteria =
                            SaveRow(@, UpdateCriterion(CHOOSE c \in found : TRUE,
                                                       criterion_data))]
         IN  IF criterion_name = <<>>
                THEN ImportDocumentCriteria(db, fw_id, Tail(cdata), idx + 1)
                ELSE ImportDocumentCriteria(
                        ImportDocumentDefinitions(db1, crit_id,
                                                  criterion_data.definitions),
                        fw_id, Tail(cdata), idx + 1)

RECURSIVE ImportDocumentFrameworks(_, _)
ImportDocumentFrameworks(db, frameworks_data) ==
    IF frameworks_data = <<>> THEN db
    ELSE LET fw_data == [Head(frameworks_data) EXCEPT !.name = Strip(@)]
             found == find_matching_framework(db, fw_data)
             fw_id == IF found = {} THEN NextId(db.frameworks)
                      ELSE (CHOOSE f \in found : TRUE).id
             db1 == IF found = {} THEN
                       [db EXCEPT !.frameworks = @ \cup
                          {[id |-> fw_id, name |-> fw_data.name,
                            year |-> fw_data.year, title |-> Strip(fw_data.title)]},
                                  !.imported_count = @ + 1]
                    ELSE [db EXCEPT !.frameworks =
                            SaveRow(@, merge_framework_data(CHOOSE f \in found : TRUE,
                                                            fw_data))]
         IN  IF fw_data.name = <<>>
                THEN ImportDocumentFrameworks(db, Tail(frameworks_data))
                ELSE ImportDocumentFrameworks(
                        ImportDocumentCriteria(db1, fw_id, fw_data.criteria, 0),
                        Tail(frameworks_data))

import_document_frameworks(db, frameworks_data) ==
    ImportDocumentFrameworks([frameworks |-> db.frameworks, criteria |-> db.criteria,
                              definitions |-> db.definitions, imported_count |-> 0],
                             frameworks_data)

\* handle() of import_document: the document is parsed and, without
\* --dry-run, imported in one transaction.  The response keeps the document,
\* the store the command found, and whether the command before it was a
\* committed import of the same document.
ImportDocument(docs, dry_runs, limits) ==
    \E table \in docs, dry_run \in dry_runs :
        \E frameworks_data \in {parse_document_table(table)} :
            \E after \in {import_document_frameworks(CurrentDb, frameworks_data)} :
                /\ WithinBounds(after, limits)
                /\ IF dry_run
                      THEN /\ UNCHANGED store
                           /\ response' = [kind |-> "import_document_dry_run",
                                           found |-> Len(frameworks_data)]
                      ELSE /\ frameworks' = after.frameworks
                           /\ criteria' = after.criteria
                           /\ definitions' = after.definitions
                           /\ response' =
                                 [kind |-> "import_document",
                                  document |-> table,
                                  frameworks_data |-> frameworks_data,
                                  before |-> CurrentDb,
                                  repeated |-> /\ response.kind = "import_document"
                                               /\ response.document = table,
                                  imported_count |-> after.imported_count]
                /\ llm_env' = NoEnv
                /\ llm_calls' = <<>>
                /\ UNCHANGED pending

\* Framework.full_clean(): the validators of the fields of the model
FullCleanRaises(framework) ==
    \/ framework.name = <<>>
    \/ framework.year # NoYear /\ (framework.year < 1900 \/ framework.year > 2100)

EditResponse(framework_id, posted, success, message, before) ==
    [kind |-> "edit_framework", framework_id |-> framework_id, posted |-> posted,
     success |-> success, message |-> message, before |-> before]

\* edit_framework on POST: the fields of the form are written to the
\* framework, which is validated and saved
EditFramework(ids, names, years, titles) ==
    \E framework_id \in ids, posted_name \in names, posted_year \in years,
       posted_title \in titles :
        LET found == {f \in frameworks : f.id = framework_id}
            name == Strip(posted_name)
            year_str == Strip(posted_year)
            out_of_range == /\ year_str # <<>> /\ ~IntRaises(year_str)
                            /\ (IntOf(year_str) < 1900 \/ IntOf(year_str) > 2100)
            year == IF year_str = <<>> \/ IntRaises(year_str) THEN NoYear
                    ELSE IntOf(year_str)
            posted == [name |-> posted_name, year |-> posted_year,
                       title |-> posted_title]
        IN  /\ IF found = {}
                  THEN /\ UNCHANGED store
                       /\ response' = EditResponse(framework_id, posted, FALSE, "not found",
                                                   CurrentDb)
               ELSE IF name = <<>>
                  THEN /\ UNCHANGED store
                       /\ response' = EditResponse(framework_id, posted, FALSE,
                                         "Framework name is required", CurrentDb)
               ELSE IF out_of_range
                  THEN /\ UNCHANGED store
                       /\ response' = EditResponse(framework_id, posted, FALSE,
                                         "Year must be between 1900 and 2100",
                                         CurrentDb)
               ELSE LET framework == [(CHOOSE f \in found : TRUE) EXCEPT
                                         !.name = name, !.year = year,
                                         !.title = Strip(posted_title)]
                    IN  IF FullCleanRaises(framework)
                           THEN /\ UNCHANGED store
                                /\ response' = EditResponse(framework_id, posted, FALSE,
                                                  "Validation error", CurrentDb)
                           ELSE /\ frameworks' = SaveRow(frameworks, framework)
                                /\ UNCHANGED <<criteria, definitions>>
                                /\ response' = EditResponse(framework_id, posted, TRUE,
                                                  "Framework updated successfully",
                                                  CurrentDb)
            /\ llm_env' = NoEnv
            /\ llm_calls' = <<>>
            /\ UNCHANGED pending

\* --- documents imported with duplicate detection, and edited frameworks ---
DocRow(title, year, dimensions, abstract) ==
    [title |-> title, year |-> year, dimensions |-> dimensions, abstract |-> abstract]

Alpha == <<"A", "l", "p", "h", "a">>
Gamma == <<"G", "a", "m", "m", "a">>
Acc == <<"A", "c", "c">>
Com == <<"C", "o", "m">>
Y2000 == <<"2", "0", "0", "0">>

DocumentDocs ==
    {<<DocRow(Alpha, Y2000, <<Acc>>, <<"x">>)>>,
     <<DocRow(Alpha, Y2000, <<Acc>>, <<"x">>),
       DocRow(Lower(Gamma), <<"2", "0", "0", "1">>, <<Lower(Acc)>>, <<"x">>)>>,
     <<DocRow(Alpha, <<"i", "n", " ", "3", "0", "0", "0">>, <<Acc, Com>>, <<>>)>>,
     <<DocRow(Alpha \o <<" ", "(", "1", "2", "3", "4", ")">>, <<>>,
              <<Acc \o <<"(">>, <<"a", "n", "d">>, <<"1", "2", "3">>>>, <<"x">>)>>,
     <<DocRow(<<"A", "b", "c">>, Y2000, <<Acc>>, <<"x">>),
       DocRow(<<"P", "a", "g", "e", " ", "1">>, Y2000, <<Acc>>, <<"x">>)>>}
DocumentLimits == [frameworks |-> MaxFw, criteria |-> MaxCrit, definitions |-> MaxDef]
EditIds == {1, 2}
EditNames == {Gamma, <<" ">>}
EditYears == {<<>>, Y2000, <<"1", "8", "9", "9">>, <<"2", "1", "0", "1">>, <<"x">>}
EditTitles == {Alpha}

ImportDocuments == ImportDocument(DocumentDocs, BOOLEAN, DocumentLimits)
Edit == EditFramework(EditIds, EditNames, EditYears, EditTitles)

NextDocument == ImportDocuments \/ Edit

SpecDocument == Init /\ [][NextDocument]_vars


(***************************************************************************)
(* The description-rewrite commands update_criteria_intelligently and      *)
(* force_update_duplicate_descriptions.  The provider's answer for a       *)
(* criterion is a completion [outcome, text]: the outcome of the rewrite   *)
(* call(s) and the text that comes back when there is one.                 *)
(***************************************************************************)
\* field__icontains
Icontains(part, s) == Contains(Lower(part), Lower(s))

\* wordings of a description taken from a paper's abstract
AbstractPhrases == {<<"V", "i", "s", "i", "o", "n", " ", "p", "a", "p", "e", "r">>,
                    <<"I", "n", "t", "r", "o", "d", "u", "c", "e", "s">>,
                    <<"T", "h", "i", "s", " ", "p", "a", "p", "e", "r">>,
                    <<"W", "e", " ", "p", "r", "o", "p", "o", "s", "e">>,
                    <<"W", "e", " ", "i", "n", "t", "r", "o", "d", "u", "c", "e">>}
AddressingChallenges == <<"a", "d", "d", "r", "e", "s", "s", "i", "n", "g", " ", "c", "h", "a", "l", "l", "e", "n", "g", "e", "s">>

\* needs_update of update_criteria_intelligently
NeedsUpdate(current_desc) ==
    \/ current_desc = <<>>
    \/ Len(current_desc) < 30
    \/ \E phrase \in AbstractPhrases : Contains(phrase, current_desc)
    \/ Contains(AddressingChallenges, Lower(current_desc))

MinIntelligentLen == 20
MinForcedLen == 30

\* a test that takes every non-empty rewrite
AcceptAnyRewrite(enhanced_desc, min_len) == enhanced_desc # <<>>

\* enhanced_desc and len(enhanced_desc.strip()) > min_len
AcceptRewrite(enhanced_desc, min_len) ==
    enhanced_desc # <<>> /\ Len(Strip(enhanced_desc)) > min_len

\* engine.generate_enhanced_description(criterion_name, fw_data, framework,
\* all_framework_data): <<>> for None and for an empty text
RewriteOne(engine, criterion, completion) ==
    LET r == generate_enhanced_description(engine,
                 <<Strip(criterion.name), criterion.id>>, completion.outcome)
    IN  [enhanced_desc |-> IF r.text = "" THEN <<>> ELSE completion.text,
         calls |-> r.calls]

NewRun(db) ==
    [criteria |-> db.criteria, rewrites |-> {}, calls |-> <<>>,
     updated_count |-> 0, skipped_count |-> 0, error_count |-> 0]

\* the loop of update_criteria_intelligently over the criteria it loaded
RECURSIVE UpdateLoop(_, _, _, _, _)
UpdateLoop(run, engine, todo, completions, dry_run) ==
    IF todo = <<>> THEN run
    ELSE LET criterion == Head(todo)
             current_desc == Strip(criterion.description)
             one == RewriteOne(engine, criterion, completions[criterion.id])
             accepted == AcceptRewrite(one.enhanced_desc, MinIntelligentLen)
             saved == [criterion EXCEPT !.description = Strip(one.enhanced_desc)]
             run1 == [run EXCEPT
                        !.criteria = IF accepted /\ ~dry_run THEN SaveRow(@, saved)
                                     ELSE @,
                        !.rewrites = @ \cup {[id |-> criterion.id,
                                              enhanced_desc |-> one.enhanced_desc]},
                        !.calls = @ \o one.calls,
                        !.updated_count = IF accepted THEN @ + 1 ELSE @,
                        !.skipped_count = IF accepted THEN @ ELSE @ + 1]
         IN  IF ~NeedsUpdate(current_desc)
                THEN UpdateLoop([run EXCEPT !.skipped_count = @ + 1], engine,
                                Tail(todo), completions, dry_run)
                ELSE UpdateLoop(run1, engine, Tail(todo), completions, dry_run)

update_criteria_intelligently(db, env, dry_run, framework_filter, criterion_filter, completions) ==
    LET engine == ConstructEngine(env)
        selected ==
            {c \in db.criteria :
               /\ framework_filter = <<>>
                     \/ Icontains(framework_filter, FrameworkOf(db, c).name)
               /\ criterion_filter = <<>> \/ Icontains(criterion_filter, c.name)}
    IN  IF engine.provider = "none" \/ selected = {} THEN NewRun(db)
        ELSE UpdateLoop(NewRun(db), engine, OrderCriteria(db, selected),
                        completions, dry_run)

\* the loop of force_update_duplicate_descriptions over criteria_to_update
RECURSIVE ForceLoop(_, _, _, _)
ForceLoop(run, engine, todo, completions) ==
    IF todo = <<>> THEN run
    ELSE LET criterion == Head(todo)
             one == RewriteOne(engine, criterion, completions[criterion.id])
             accepted == AcceptRewrite(one.enhanced_desc, MinForcedLen)
             saved == [criterion EXCEPT !.description = Strip(one.enhanced_desc)]
             run1 == [run EXCEPT
                        !.criteria = IF accepted THEN SaveRow(@, saved) ELSE @,
                        !.rewrites = @ \cup {[id |-> criterion.id,
                                              enhanced_desc |-> one.enhanced_desc]},
                        !.calls = @ \o one.calls,
                        !.updated_count = IF accepted THEN @ + 1 ELSE @,
                        !.error_count = IF accepted THEN @ ELSE @ + 1]
         IN  ForceLoop(run1, engine, Tail(todo), completions)

\* criteria that share their name and a non-empty description of fewer than
\* 200 characters with another criterion.  The order of the groups is the
\* database's; the answer for a criterion does not depend on it.
force_update_duplicate_descriptions(db, env, completions) ==
    LET engine == ConstructEngine(env)
        criteria_to_update ==
            {c \in db.criteria :
               /\ c.description # <<>> /\ Len(c.description) < 200
               /\ \E d \in db.criteria :
                     d.id # c.id /\ d.name = c.name /\ d.description = c.description}
    IN  IF engine.provider = "none" \/ criteria_to_update = {} THEN NewRun(db)
        ELSE ForceLoop(NewRun(db), engine, OrderCriteria(db, criteria_to_update),
                       completions)

RewriteResponse(kind, dry_run, run) ==
    [kind |-> kind, dry_run |-> dry_run, before |-> CurrentDb,
     rewrites |-> run.rewrites, updated_count |-> run.updated_count,
     skipped_count |-> run.skipped_count, error_count |-> run.error_count]

\* handle() of update_criteria_intelligently
UpdateCriteriaIntelligently(envs, dry_runs, filters, answers) ==
    \E env \in envs, dry_run \in dry_runs, filter \in filters, completions \in answers :
        \E run \in {update_criteria_intelligently(CurrentDb, env, dry_run,
                        filter.framework, filter.criterion, completions)} :
            /\ criteria' = run.criteria
            /\ UNCHANGED <<frameworks, definitions, pending>>
            /\ response' = RewriteResponse("update_criteria_intelligently", dry_run, run)
            /\ llm_env' = env
            /\ llm_calls' = ConstructionCalls(env) \o run.calls

\* handle() of force_update_duplicate_descriptions
ForceUpdateDuplicateDescriptions(envs, answers) ==
    \E env \in envs, completions \in answers :
        \E run \in {force_update_duplicate_descriptions(CurrentDb, env, completions)} :
            /\ criteria' = run.criteria
            /\ UNCHANGED <<frameworks, definitions, pending>>
            /\ response' = RewriteResponse("force_update_duplicate_descriptions",
                                           FALSE, run)
            /\ llm_env' = env
            /\ llm_calls' = ConstructionCalls(env) \o run.calls

\* --- the rewrite commands over imported criteria ---
RewriteDocs ==
    {<<Row(<<"P", "1", "9", "9", "9">>, <<"c">>, <<"a">>)>>,
     <<Row(<<"Q", "1", "9", "9", "9">>, <<"c">>, <<"a">>)>>,
     <<Row(<<"P", "1", "9", "9", "9">>, <<"d">>, LongText(30))>>}
Completion(outcome, text) == [outcome |-> outcome, text |-> text]
CompletionPool ==
    {Completion("text", LongText(31)), Completion("text", LongText(21)),
     Completion("text", <<" ">> \o LongText(20) \o <<" ">>),
     Completion("error_then_text", LongText(31))}
RewriteAnswers ==
    {[id \in 1..MaxCrit |-> c] : c \in CompletionPool}
    \cup {[id \in 1..MaxCrit |-> IF id = 1 THEN Completion("text", LongText(31))
                                 ELSE Completion("error_then_error", <<>>)]}
RewriteEnvs == {HuggingfaceReady, NoLibraries}
RewriteFilters == {[framework |-> <<>>, criterion |-> <<>>],
                   [framework |-> <<"p">>, criterion |-> <<"C">>]}

ImportRewrite == ImportDocx(RewriteDocs, Limits)
UpdateIntelligently ==
    UpdateCriteriaIntelligently(RewriteEnvs, BOOLEAN, RewriteFilters, RewriteAnswers)
ForceUpdate == ForceUpdateDuplicateDescriptions(RewriteEnvs, RewriteAnswers)

NextRewrite == ImportRewrite \/ UpdateIntelligently \/ ForceUpdate

SpecRewrite == Init /\ [][NextRewrite]_vars


\* --- the merge steps of cleanup_duplicates, step by step ---
StepDocs ==
    MergeDocs \cup {<<Row(<<"P", "1", "9", "9", "9">>, <<"c">>, <<"x">>)>>}

ImportSteps == ImportDocx(StepDocs, Limits)
CleanupSteps == CleanupDuplicatesTraced(BOOLEAN, {NoFailure, 2})

NextSteps == ImportSteps \/ CleanupSteps

SpecSteps == Init /\ [][NextSteps]_vars

(***************************************************************************)
(* Properties of the comparison view.                                      *)
(***************************************************************************)
IsComparison == response.kind = "comparison"
Selected == response.selected_frameworks
SelectedIds == {Selected[i].id : i \in DOMAIN Selected}
Registry == response.criteria_names
Rows == response.comparison_data
SelectedCriteria == {c \in criteria : c.framework \in SelectedIds}
PresentCells(row) ==
    {i \in DOMAIN row.framework_data : row.framework_data[i].has_criterion}

TrimLower(s) == Lower(Strip(s))

\* C1 as stated: criterion names that are equal after trimming, collapsing
\* whitespace runs and lowercasing yield exactly one registry entry, and no two
\* comparison rows have names that normalise identically.
C1_Original ==
    IsComparison =>
        /\ \A c \in SelectedCriteria :
              Cardinality({i \in DOMAIN Registry :
                             normalize_loose(Registry[i]) = normalize_loose(c.name)}) = 1
        /\ \A i, j \in DOMAIN Rows :
              i # j => normalize_loose(Rows[i].name) # normalize_loose(Rows[j].name)

\* C1, amended: criterion names that are equal after trimming and lowercasing
\* yield exactly one registry entry, and no two comparison rows have names that
\* are equal after trimming and lowercasing.
C1_Registry ==
    IsComparison =>
        /\ \A c \in SelectedCriteria :
              Cardinality({i \in DOMAIN Registry :
                             TrimLower(Registry[i]) = TrimLower(c.name)}) = 1
        /\ \A i, j \in DOMAIN Rows :
              i # j => TrimLower(Rows[i].name) # TrimLower(Rows[j].name)

\* two stored names of the selection differ in case only and share one entry
C1_Witness ==
    /\ IsComparison
    /\ Len(Registry) = 1
    /\ \E c1, c2 \in SelectedCriteria : c1.name # c2.name /\ Lower(c1.name) = Lower(c2.name)

\* year descending with absent years last, then name ascending
InDisplayOrder(q) ==
    \A i, j \in DOMAIN q :
        i < j => /\ (q[i].year = NoYear => q[j].year = NoYear)
                 /\ (q[i].year # NoYear /\ q[j].year # NoYear => q[i].year >= q[j].year)
                 /\ (q[i].year = q[j].year => ~StrLess(q[j].name, q[i].name))

\* C2: the comparison has exactly one row per registry name, every row has
\* exactly one cell per selected framework, and cell i belongs to the i-th
\* selected framework in display order (year descending with absent years
\* last, then name ascending).
C2_Matrix ==
    IsComparison =>
        /\ Len(Selected) = Cardinality(SelectedIds)
        /\ {Selected[i] : i \in DOMAIN Selected} =
              {f \in frameworks : f.id \in SeqRange(ParseIds(response.request))}
        /\ InDisplayOrder(Selected)
        /\ Len(Rows) = Len(Registry)
        /\ \A r \in DOMAIN Rows :
              /\ Rows[r].name = Registry[r]
              /\ Len(Rows[r].framework_data) = Len(Selected)
              /\ \A i \in DOMAIN Selected :
                    LET cell == Rows[r].framework_data[i]
                        stored == {c \in criteria : /\ c.framework = Selected[i].id
                                                    /\ IExact(c.name, Rows[r].name)}
                    IN  /\ cell.has_criterion <=> stored # {}
                        /\ cell.has_criterion =>
                              \E c \in stored : cell.description = c.description

\* two frameworks are shown against their creation order, the one without a
\* year last, and a row is present in the first and absent in the second
C2_Witness ==
    /\ IsComparison
    /\ Len(Selected) = 2
    /\ Selected[1].id > Selected[2].id
    /\ Selected[2].year = NoYear
    /\ \E r \in DOMAIN Rows : PresentCells(Rows[r]) = {1}

Occurrences(name) ==
    Cardinality({i \in DOMAIN response.similarities : response.similarities[i] = name})
    + Cardinality({i \in DOMAIN response.differences :
                     response.differences[i].criterion = name})

\* C3: with more than one framework selected every row's criterion name is in
\* exactly one of similarities and differences and their lengths add up to the
\* number of rows; with at most one framework selected both lists are empty.
C3_Partition ==
    IsComparison =>
        IF Len(Selected) > 1
           THEN /\ \A r \in DOMAIN Rows : Occurrences(Rows[r].name) = 1
                /\ Len(response.similarities) + Len(response.differences) = Len(Rows)
           ELSE response.similarities = <<>> /\ response.differences = <<>>

\* two frameworks with a common criterion and a criterion of one of them only
C3_Witness ==
    /\ IsComparison
    /\ Len(Selected) = 2
    /\ response.similarities # <<>>
    /\ response.differences # <<>>

ScenarioStored ==
    \E a, b \in frameworks :
        /\ a.name = A2019 /\ a.year = 2019
        /\ b.name = B2021 /\ b.year = 2021
        /\ frameworks = {a, b}
        /\ {<<c.framework, c.name, c.description>> : c \in criteria} =
              {<<a.id, Completeness, <<"X">> >>, <<a.id, Accuracy, <<"Y">> >>,
               <<b.id, completeness, <<"Z">> >>}

PresentWith(cell, description) ==
    cell.has_criterion /\ cell.description = description
Absent(cell) == ~cell.has_criterion

AccuracyInOneOfTwo == <<[criterion |-> Accuracy, in_frameworks |-> 1, total |-> 2]>>

\* the example is stored and both frameworks are compared
C4_Witness == ScenarioStored /\ IsComparison /\ Len(Selected) = 2

\* C4 as stated: registry ["Accuracy", "Completeness"]; row "Completeness" has
\* cells [present X, present Z]; row "Accuracy" has cells [present Y, absent];
\* similarities = ["Completeness"]; differences = [("Accuracy", 1, 2)].
C4_Original ==
    C4_Witness =>
        /\ Registry = <<Accuracy, Completeness>>
        /\ Len(Rows) = 2
        /\ Rows[1].name = Accuracy
        /\ PresentWith(Rows[1].framework_data[1], <<"Y">>)
        /\ Absent(Rows[1].framework_data[2])
        /\ Rows[2].name = Completeness
        /\ PresentWith(Rows[2].framework_data[1], <<"X">>)
        /\ PresentWith(Rows[2].framework_data[2], <<"Z">>)
        /\ response.similarities = <<Completeness>>
        /\ response.differences = AccuracyInOneOfTwo

\* C4, amended: B (2021) is displayed before A (2019) and its spelling is the
\* first seen: registry ["Accuracy", "completeness"]; row "completeness" has
\* cells [present Z, present X]; row "Accuracy" has cells [absent, present Y];
\* similarities = ["completeness"]; differences = [("Accuracy", 1, 2)].
C4_Example ==
    C4_Witness =>
        /\ Selected[1].name = B2021 /\ Selected[2].name = A2019
        /\ Registry = <<Accuracy, completeness>>
        /\ Len(Rows) = 2
        /\ Rows[1].name = Accuracy
        /\ Absent(Rows[1].framework_data[1])
        /\ PresentWith(Rows[1].framework_data[2], <<"Y">>)
        /\ Rows[2].name = completeness
        /\ PresentWith(Rows[2].framework_data[1], <<"Z">>)
        /\ PresentWith(Rows[2].framework_data[2], <<"X">>)
        /\ response.similarities = <<completeness>>
        /\ response.differences = AccuracyInOneOfTwo


(***************************************************************************)
(* Properties of the enhancement run.                                      *)
(***************************************************************************)
\* the most recent handler was a comparison that ran the enhancement
RunHappened == IsComparison /\ response.use_llm
EngineBuilt == RunHappened /\ llm_env.settings = "configured"
Result == response.llm_result
\* what the view computed before the enhancement: the input of the run
Base == BaseComparison(CurrentDb, response.request)
CompletionCalls == {k \in DOMAIN llm_calls : llm_calls[k].step # "probe"}

ProviderNone == EngineBuilt /\ ConstructEngine(llm_env).provider = "none"

NoProviderOutput ==
    /\ Result.enhanced = FALSE
    /\ Result.comparison_data = Base.comparison_data
    /\ Result.semantic_similarities = "empty"
    /\ Result.summaries = {}
    /\ Result.groups = "empty"

\* C7 as stated: when the detected provider is 'none' the run makes no
\* provider call and returns enhanced = false, comparison_data equal to its
\* input, and empty semantic_similarities, summaries and groups.
C7_Original == ProviderNone => llm_calls = <<>> /\ NoProviderOutput

\* C7, amended: when the detected provider is 'none' the run sends no
\* completion or embedding request (provider detection may still have probed
\* a local Ollama server) and returns enhanced = false, comparison_data equal
\* to its input, and empty semantic_similarities, summaries and groups.
C7_NoProvider == ProviderNone => CompletionCalls = {} /\ NoProviderOutput

\* provider 'none' over a comparison with rows, after the Ollama probe
C7_Witness == ProviderNone /\ Rows # <<>> /\ llm_calls # <<>>

ProviderAvailable == EngineBuilt /\ ConstructEngine(llm_env).provider # "none"

RewriteSucceeded(name, i) ==
    \E k \in DOMAIN llm_calls : /\ llm_calls[k].step = "rewrite"
                                /\ llm_calls[k].key = <<name, i>>
                                /\ llm_calls[k].outcome = "text"

\* C8: with a provider available, whichever per-cell rewrite calls throw or
\* return nothing, the run completes with enhanced = true; a cell carries
\* has_llm_enhancement = true (with llm_description) exactly when it is a
\* present cell whose own rewrite call succeeded, every other cell false.
C8_PerCell ==
    ProviderAvailable =>
        /\ Result.enhanced = TRUE
        /\ Len(Result.comparison_data) = Len(Base.comparison_data)
        /\ \A r \in DOMAIN Result.comparison_data :
              \A i \in DOMAIN Result.comparison_data[r].framework_data :
                 LET cell == Result.comparison_data[r].framework_data[i]
                 IN  /\ "has_llm_enhancement" \in DOMAIN cell
                     /\ cell.has_llm_enhancement <=>
                           /\ cell.has_criterion
                           /\ RewriteSucceeded(Result.comparison_data[r].name, i)
                     /\ cell.has_llm_enhancement => "llm_description" \in DOMAIN cell

\* one rewrite succeeded, another raised, and the run still completed
C8_Witness ==
    /\ ProviderAvailable
    /\ \E k \in DOMAIN llm_calls :
          llm_calls[k].step = "rewrite" /\ llm_calls[k].outcome = "error"
    /\ \E r \in DOMAIN Rows :
          \E i, j \in PresentCells(Rows[r]) :
             /\ Rows[r].framework_data[i].has_llm_enhancement
             /\ ~Rows[r].framework_data[j].has_llm_enhancement

EscapedException == RunHappened /\ llm_env.settings = "unconfigured"
CaughtException ==
    EngineBuilt /\ \E k \in CompletionCalls : llm_calls[k].outcome = "error"

FailureReported ==
    /\ Result.enhanced = FALSE
    /\ "error" \in DOMAIN Result
    /\ Result.error # ""
    /\ Result.comparison_data = Base.comparison_data

ViewRendersBase ==
    /\ response.comparison_data = Base.comparison_data
    /\ response.similarities = Base.similarities
    /\ response.differences = Base.differences
    /\ response.llm_enhancement.enhanced = FALSE
    /\ response.llm_enhancement.error = Result.error

\* C9 as stated: whatever exception occurs anywhere in the run (engine
\* construction included), the caller gets enhanced = false, an error
\* description and the unmodified input, and the view renders the base rows,
\* similarities and differences.
C9_Original ==
    (EscapedException \/ CaughtException) => FailureReported /\ ViewRendersBase

\* C9, amended: an exception that escapes the sub-steps of the run (a failing
\* engine construction) gives the caller enhanced = false, an error
\* description and the unmodified input, and the view renders the base rows,
\* similarities and differences; an exception raised by a provider call
\* inside a sub-step is handled there and the run still reports enhanced = true.
C9_TopLevel ==
    /\ EscapedException => FailureReported /\ ViewRendersBase
    /\ CaughtException => Result.enhanced = TRUE

\* engine construction failed for a comparison with rows
C9_Witness == EscapedException /\ Rows # <<>>

Usable(engine) == engine.client = "ready" \/ engine.model = "ready"

\* C10 as stated: with no provider configured or reachable (a forced provider
\* whose library or client is unavailable included) the run reports
\* enhanced = false and skips every step; enhanced = true is only reported
\* when the selected provider has an initialised client or model.
C10_Original ==
    EngineBuilt =>
        /\ Result.enhanced => Usable(ConstructEngine(llm_env))
        /\ ~Usable(ConstructEngine(llm_env)) =>
              Result.enhanced = FALSE /\ CompletionCalls = {}


(***************************************************************************)
(* C11: invalid framework ids of a request.                                *)
(***************************************************************************)
HasRequest == response.kind \in {"form", "comparison"}
IsDecimalStr(s) == s # <<>> /\ \A i \in DOMAIN s : s[i] \in {"0", "1", "2", "3", "4", "5", "6", "7", "8", "9"}
\* the stored frameworks that some entry of the request names
ValidIds ==
    {f.id : f \in {g \in frameworks :
                     \E i \in DOMAIN response.request :
                        /\ IsDecimalStr(response.request[i])
                        /\ IntOf(response.request[i]) = g.id}}
EmptyComparison ==
    /\ IsComparison
    /\ Selected = <<>> /\ Registry = <<>> /\ Rows = <<>>
    /\ response.similarities = <<>> /\ response.differences = <<>>

\* C11 (as stated): every entry of the request that is non-numeric or names no
\* stored framework is dropped on its own: the comparison is built over
\* exactly the remaining valid ids, each once, and when no valid id remains
\* the request is answered without a comparison (the selection form or an
\* empty comparison), never by an error.
C11_Original ==
    HasRequest /\ response.request # <<>> =>
        IF ValidIds # {}
           THEN /\ IsComparison
                /\ SelectedIds = ValidIds
                /\ Len(Selected) = Cardinality(ValidIds)
                /\ Registry = CriteriaNames(CurrentDb, ValidIds)
           ELSE response.kind = "form" \/ EmptyComparison

(***************************************************************************)
(* C12: the definitions of a present cell.                                 *)
(***************************************************************************)
\* the stored definitions of the criterion shown in a cell
StoredDefinitions(framework, name) ==
    {d \in definitions : d.criterion = LookupCriterion(CurrentDb, framework, name)[1].id}
\* the definitions that have a non-empty text no earlier definition of the
\* set has, texts being compared by Key
KeptBy(D, Key) ==
    {d \in D : /\ Strip(d.definition_text) # <<>>
                /\ ~\E e \in D : e.id < d.id /\ Key[e.id] = Key[d.id]}
\* q lists the trimmed texts of the set K of definitions in stored order
ListsInStoredOrder(q, K) ==
    /\ Len(q) = Cardinality(K)
    /\ \A d \in K : q[Cardinality({e \in K : e.id <= d.id})] = Strip(d.definition_text)
CellDefinitionsBy(trim_lower) ==
    IsComparison =>
        \A r \in DOMAIN Rows : \A i \in DOMAIN Selected :
            LET cell == Rows[r].framework_data[i]
            IN  cell.has_criterion =>
                   LET D == StoredDefinitions(Selected[i], Rows[r].name)
                       Key == [id \in {d.id : d \in D} |->
                                 LET text == (CHOOSE d \in D : d.id = id).definition_text
                                 IN  IF trim_lower THEN TrimLower(text)
                                     ELSE normalize_loose(text)]
                       entry(k) == IF trim_lower THEN TrimLower(cell.definitions[k])
                                   ELSE normalize_loose(cell.definitions[k])
                   IN  /\ ListsInStoredOrder(cell.definitions, KeptBy(D, Key))
                       /\ \A k, l \in DOMAIN cell.definitions :
                              entry(k) = entry(l) => k = l

\* C12 (as stated): the definitions of every present cell are the criterion's
\* non-empty definition texts in stored order, a text being dropped when an
\* earlier text of the criterion is equal under normalize_loose (trim,
\* collapse whitespace runs, lowercase); no two entries of a cell normalize
\* identically.
C12_Original == CellDefinitionsBy(FALSE)

\* C12 (amended): the same with texts compared after trimming and lowercasing
\* only: texts that differ in the length of an internal whitespace run are
\* both listed.
C12_TrimLower == CellDefinitionsBy(TRUE)

\* a cell that lists two of three stored texts: one was dropped as a
\* case variant, one differs by a whitespace run only and is kept
C12_Witness ==
    /\ IsComparison
    /\ \E r \in DOMAIN Rows : \E i \in DOMAIN Selected :
          LET cell == Rows[r].framework_data[i]
          IN  /\ cell.has_criterion
              /\ Cardinality(StoredDefinitions(Selected[i], Rows[r].name)) = 3
              /\ Len(cell.definitions) = 2
              /\ normalize_loose(cell.definitions[1]) = normalize_loose(cell.definitions[2])

(***************************************************************************)
(* C13: definitions left by cleanup_duplicates.                            *)
(***************************************************************************)
\* two definitions with the same normalized text, or with one normalized
\* text inside the other and lengths less than 20 apart
Redundant(d, e) ==
    LET a == normalize_loose(d.definition_text)
        b == normalize_loose(e.definition_text)
    IN  \/ a = b
        \/ /\ Contains(a, b) \/ Contains(b, a)
           /\ Len(a) - Len(b) < 20
           /\ Len(b) - Len(a) < 20
CleanedUp == response'.kind = "cleanup" /\ ~response'.dry_run
NoRedundantPairLeft ==
    \A d, e \in definitions' :
        d.id # e.id /\ d.criterion = e.criterion => ~Redundant(d, e)
\* the largest sets of two or more definitions of one criterion that are
\* redundant with one another, for the criteria that the run keeps
RedundantGroups ==
    {G \in SUBSET definitions :
        /\ Cardinality(G) > 1
        /\ \A d, e \in G : d.criterion = e.criterion /\ (d.id # e.id => Redundant(d, e))
        /\ \A d \in G : \E c \in criteria' : c.id = d.criterion
        /\ ~\E x \in definitions \ G :
               \A d \in G : d.criterion = x.criterion /\ Redundant(d, x)}

\* C13 (as stated): after a cleanup_duplicates run without --dry-run no
\* criterion keeps two redundant definitions, and of every group of
\* definitions that are redundant with one another exactly one survives
\* (the groups are those of the store the run starts from, so this part is
\* stated for the runs that merge no framework and no criterion).
C13_Original ==
    [][CleanedUp =>
          /\ NoRedundantPairLeft
          /\ response'.frameworks_merged = 0 /\ response'.criteria_merged = 0 =>
                \A G \in RedundantGroups :
                   Cardinality({d \in G : \E x \in definitions' : x.id = d.id}) = 1]_vars

\* C13 (amended): no criterion keeps two redundant definitions, and the
\* normalized text of every definition removed from a criterion that is kept
\* is part of the normalized text of a definition that the criterion keeps;
\* that survivor may be 20 or more characters longer.
C13_Survivor ==
    [][CleanedUp =>
          /\ NoRedundantPairLeft
          /\ \A d \in definitions :
                (\E c \in criteria' : c.id = d.criterion) =>
                   \E x \in definitions' :
                      /\ x.criterion = d.criterion
                      /\ Contains(normalize_loose(d.definition_text),
                                   normalize_loose(x.definition_text))]_vars

\* a run has removed two definitions of a criterion and kept the longest
C13_Witness ==
    /\ response.kind = "cleanup" /\ ~response.dry_run
    /\ response.definitions_removed = 2
    /\ \E d \in definitions : d.definition_text = LongText(21)

(***************************************************************************)
(* C14: the classification and the matrix cells.                           *)
(***************************************************************************)
Similarities == {response.similarities[i] : i \in DOMAIN response.similarities}
Differences == {response.differences[i] : i \in DOMAIN response.differences}

\* C14: with N > 1 frameworks selected, a row's name is in similarities iff
\* all N cells of the row are present, and it is in differences, with
\* in_frameworks = k and total = N, iff exactly k cells of the row are present
\* and 0 < k < N.
C14_Agreement ==
    IsComparison /\ Len(Selected) > 1 =>
        \A r \in DOMAIN Rows :
            LET name == Rows[r].name
                k == Cardinality(PresentCells(Rows[r]))
                N == Len(Selected)
            IN  /\ Len(Rows[r].framework_data) = N
                /\ name \in Similarities <=> k = N
                /\ (\E d \in Differences : d.criterion = name) <=> 0 < k /\ k < N
                /\ \A d \in Differences :
                      d.criterion = name => d.in_frameworks = k /\ d.total = N

\* two frameworks store one criterion under names that differ in case and
\* one of them a second criterion: a row with both cells present and a row
\* with one
C14_Witness ==
    /\ IsComparison /\ Len(Selected) = 2
    /\ \E c, d \in SelectedCriteria :
          c.framework # d.framework /\ c.name # d.name /\ IExact(c.name, d.name)
    /\ \E r \in DOMAIN Rows : Cardinality(PresentCells(Rows[r])) = 2
    /\ \E r \in DOMAIN Rows : Cardinality(PresentCells(Rows[r])) = 1

(***************************************************************************)
(* C15: read consistency of a compare request.                             *)
(***************************************************************************)
RequestDone == pending.phase = "done" /\ IsComparison
\* the response is the comparison of the request over the store S
ComparisonOver(S) ==
    LET b == BaseComparison(S, response.request)
    IN  /\ b.kind = "comparison"
        /\ Registry = b.criteria_names
        /\ Rows = b.comparison_data
        /\ response.similarities = b.similarities
        /\ response.differences = b.differences

\* C15 (as stated): when imports commit while a compare request runs its
\* queries, the registry, the cells and the similarities / differences it
\* returns are those of one single store among the stores committed while
\* the request ran.
C15_Original == RequestDone => \E S \in pending.stores : ComparisonOver(S)

(***************************************************************************)
(* C16: cleanup_duplicates is all-or-nothing.                              *)
(***************************************************************************)
CleanupFailed == response.kind = "cleanup_error"
NothingOrphaned ==
    /\ \A c \in criteria : \E f \in frameworks : f.id = c.framework
    /\ \A d \in definitions : \E c \in criteria : c.id = d.criterion

\* C16: when a write of cleanup_duplicates raises part-way through the
\* framework merge, the criterion merge or the definition removal, the store
\* after the run is the store before it, and no criterion or definition is
\* left without its parent.
C16_AllOrNothing ==
    [][CleanupFailed' => store' = store /\ NothingOrphaned']_vars

\* a run over a store with two frameworks of the same normalized name has
\* failed after some of its writes succeeded
C16_Witness ==
    /\ CleanupFailed
    /\ response.writes > 0
    /\ \E f, g \in frameworks :
          f.id # g.id /\ normalize_loose(f.name) = normalize_loose(g.name)

(***************************************************************************)
(* C17: cleanup_duplicates --dry-run.                                      *)
(***************************************************************************)
\* C17 (as stated): a run of cleanup_duplicates with --dry-run leaves the
\* store as it was: no Framework, Criterion or Definition is deleted,
\* re-parented or edited.
C17_Original ==
    [][response'.kind = "cleanup" /\ response'.dry_run => store' = store]_vars

(***************************************************************************)
(* C18: the normalizers are total and idempotent.                          *)
(***************************************************************************)
IsString(s) == s # None /\ \A i \in DOMAIN s : s[i] \in DOMAIN OrdTable

\* C18: for every string, the empty string and an absent name included,
\* each normalizer returns a string, and applied to its own result it
\* returns that result.
C18_Idempotent ==
    /\ response.kind \in {"normalized", "normalized_again"} =>
          IsString(response.name) /\ IsString(response.criterion_name)
    /\ response.kind = "normalized_again" =>
          /\ response.name = response.first.name
          /\ response.criterion_name = response.first.criterion_name

\* a name with a run of three spaces has been normalized by both functions,
\* each of them twice
C18_Witness ==
    /\ response.kind = "normalized_again"
    /\ response.input = <<"a", " ", " ", " ", "b">>
    /\ response.name = <<"a", " ", "b">>
    /\ response.criterion_name = <<"A", " ", "b">>

(***************************************************************************)
(* C19: the enhancement only adds annotations.                             *)
(***************************************************************************)
\* a comparison for which enhance_comparison_with_llm has been called
EnhancementCalled == response.kind = "comparison" /\ response.use_llm

\* the comparison_data the view passed to enhance_comparison_with_llm
GivenRows == BaseComparison(CurrentDb, response.request).comparison_data

\* the comparison_data in the record enhance_comparison_with_llm returned
ReturnedRows == response.llm_result.comparison_data

Annotations == {"llm_description", "has_llm_enhancement"}

\* cell b is cell a with nothing but annotations added
OnlyAnnotated(a, b) ==
    /\ DOMAIN a \subseteq DOMAIN b
    /\ DOMAIN b \ DOMAIN a \subseteq Annotations
    /\ \A k \in DOMAIN a : b[k] = a[k]

\* C19: the comparison_data returned by enhance_comparison_with_llm has the
\* rows of its argument in the same order, with the same names and the same
\* number of cells; every cell keeps its has_criterion, description, category
\* and definitions; and the list the caller passed is, after the call, what
\* it was before.
C19_OnlyAnnotations ==
    EnhancementCalled =>
       /\ Len(ReturnedRows) = Len(GivenRows)
       /\ \A r \in DOMAIN GivenRows :
              /\ DOMAIN ReturnedRows[r] = DOMAIN GivenRows[r]
              /\ ReturnedRows[r].name = GivenRows[r].name
              /\ Len(ReturnedRows[r].framework_data)
                    = Len(GivenRows[r].framework_data)
              /\ \A i \in DOMAIN GivenRows[r].framework_data :
                     OnlyAnnotated(GivenRows[r].framework_data[i],
                                   ReturnedRows[r].framework_data[i])
       /\ response.llm_argument = GivenRows

\* an enhanced comparison of two frameworks with a present cell that carries
\* a rewritten description, a present cell without one and an absent cell
C19_Witness ==
    /\ EnhancementCalled
    /\ response.llm_result.enhanced
    /\ Len(GivenRows) = 2
    /\ \E r \in DOMAIN ReturnedRows :
       \E i, j \in DOMAIN ReturnedRows[r].framework_data :
          /\ "llm_description" \in DOMAIN ReturnedRows[r].framework_data[i]
          /\ ReturnedRows[r].framework_data[j].has_criterion
          /\ ~ReturnedRows[r].framework_data[j].has_llm_enhancement
    /\ \E r \in DOMAIN ReturnedRows :
       \E i \in DOMAIN ReturnedRows[r].framework_data :
          ~ReturnedRows[r].framework_data[i].has_criterion

(***************************************************************************)
(* C20: the order of provider detection.                                   *)
(***************************************************************************)
\* an enhancement run whose engine detected its provider without
\* settings.LLM_PROVIDER
DetectionRun ==
    /\ response.kind = "comparison"
    /\ response.use_llm
    /\ llm_env.settings = "configured"
    /\ llm_env.forced = ""

\* provider p can be used in environment env: its library imports, the
\* Ollama server answers, OpenAI has its key and USE_OPENAI=true
Available(p, env) ==
    /\ p \in env.libs
    /\ p = "ollama" => env.client_ok
    /\ p = "openai" => env.openai_key /\ env.use_openai

\* the first available provider in the order Hugging Face, Ollama,
\* Sentence Transformers, OpenAI; "none" when there is none
FirstAvailable(env) ==
    IF Available("huggingface", env) THEN "huggingface"
    ELSE IF Available("ollama", env) THEN "ollama"
    ELSE IF Available("sentence_transformers", env) THEN "sentence_transformers"
    ELSE IF Available("openai", env) THEN "openai"
    ELSE "none"

\* C20: without a forced setting the engine runs with the first available
\* provider in the order Hugging Face, Ollama, Sentence Transformers, OpenAI
\* (the run of a working provider reports enhanced = true and that provider),
\* and with no provider only when none of the four is available.
C20_Original ==
    DetectionRun /\ llm_env.client_ok =>
       IF FirstAvailable(llm_env) = "none"
          THEN ~response.llm_result.enhanced
          ELSE /\ response.llm_result.enhanced
               /\ response.llm_result.provider = FirstAvailable(llm_env)

(***************************************************************************)
(* C21: a failing sub-step does not stop the others.                       *)
(***************************************************************************)
\* an enhancement run on the Hugging Face engine with its client ready
HuggingfaceRun ==
    /\ EngineBuilt
    /\ ConstructEngine(llm_env).provider = "huggingface"
    /\ ConstructEngine(llm_env).client = "ready"

Failing == {"error", "empty"}

StepCalled(step) == \E k \in DOMAIN llm_calls : llm_calls[k].step = step

\* rows of the run's input by the number of frameworks that have them
SharedRows == {r \in DOMAIN Base.comparison_data : PresentCount(Base.comparison_data[r]) >= 2}
UniqueRows == {r \in DOMAIN Base.comparison_data : PresentCount(Base.comparison_data[r]) = 1}
NamesOf(rs) == {Base.comparison_data[r].name : r \in rs}

Retried ==
    \E j, k \in CompletionCalls :
       /\ j < k
       /\ llm_calls[j].step = llm_calls[k].step
       /\ llm_calls[j].key = llm_calls[k].key
       /\ llm_calls[j].target = llm_calls[k].target

\* a sub-step other than the description rewrite went to the secondary model
FallbackOutsideRewrite ==
    \E k \in CompletionCalls :
       llm_calls[k].target = "fallback" /\ llm_calls[k].step # "rewrite"

\* C22: in an enhancement run no provider call is attempted twice on the
\* same model and endpoint, and only the per-cell description rewrite falls
\* back to a secondary model.
C22_Original == EngineBuilt => ~Retried /\ ~FallbackOutsideRewrite

(***************************************************************************)
(* C23: the unique-criterion insight is requested for ten rows at most.    *)
(***************************************************************************)
\* the criteria for which the unique-criterion insight was requested
UniqueInsightRequested ==
    {llm_calls[k].key[1] : k \in {j \in DOMAIN llm_calls : llm_calls[j].step = "unique"}}

\* the first ten rows, in row order, that exactly one framework has
FirstTenUniqueRows ==
    {r \in UniqueRows : Cardinality({q \in UniqueRows : q < r}) < 10}

\* C23: in one enhancement run the unique-criterion insight is requested for
\* at most 10 criteria, all of them among the first 10 rows in row order
\* that are present in exactly one framework (on the Hugging Face engine,
\* which is the one that makes the request, for exactly those rows).
C23_FirstTen ==
    EngineBuilt =>
       /\ Cardinality(UniqueInsightRequested) <= 10
       /\ UniqueInsightRequested \subseteq NamesOf(FirstTenUniqueRows)
       /\ HuggingfaceRun => UniqueInsightRequested = NamesOf(FirstTenUniqueRows)

\* a run over eleven unique rows that follow a shared row: ten requests,
\* none for the eleventh
C23_Witness ==
    /\ HuggingfaceRun
    /\ Cardinality(UniqueRows) = 11
    /\ 1 \in SharedRows
    /\ Cardinality(UniqueInsightRequested) = 10
    /\ <<"l">> \notin UniqueInsightRequested
    /\ <<"k">> \in UniqueInsightRequested

(***************************************************************************)
(* C24: which criteria get a summary and which an insight.                 *)
(***************************************************************************)
\* the rows of the run's input that at least n of the selected frameworks have
RowsInAtLeast(n) ==
    {r \in DOMAIN Base.comparison_data :
        Cardinality(PresentCells(Base.comparison_data[r])) >= n}

\* C24: in the result of an enhancement run, summaries has an entry only for
\* criteria that at least two selected frameworks have, and insights has an
\* entry only for criteria that at least one selected framework has.
C24_Entries ==
    EngineBuilt /\ Result.enhanced =>
       /\ Result.summaries \subseteq NamesOf(RowsInAtLeast(2))
       /\ Result.insights \subseteq NamesOf(RowsInAtLeast(1))

\* a run with a summary and an insight for the shared criterion and an
\* insight, but no summary, for a criterion that only one framework has
C24_Witness ==
    /\ EngineBuilt /\ Result.enhanced
    /\ Result.summaries # {}
    /\ \E r \in RowsInAtLeast(1) \ RowsInAtLeast(2) :
          /\ Base.comparison_data[r].name \in Result.insights
          /\ Base.comparison_data[r].name \notin Result.summaries
    /\ \E r \in RowsInAtLeast(2) :
          Base.comparison_data[r].name \in Result.insights \cap Result.summaries

(***************************************************************************)
(* C25: find_semantic_similarities recovers from every failure.            *)
(***************************************************************************)
\* the completion of the similarity call holds no JSON object: the call
\* raised on every attempt, or returned nothing, or returned other JSON
NoSimilarityObject == llm_env.aux.similarity \in {"error", "empty", "json_array"}

\* C25: find_semantic_similarities returns an empty mapping when the provider
\* call fails or when the response holds no parseable JSON object, and for an
\* empty criteria list it returns an empty mapping without a provider call.
C25_Original ==
    EngineBuilt /\ Result.enhanced =>
       /\ NoSimilarityObject => Result.semantic_similarities = "empty"
       /\ Base.comparison_data = <<>> =>
             ~StepCalled("similarity") /\ Result.semantic_similarities = "empty"

(***************************************************************************)
(* Stored years after imports and edits.                                   *)
(***************************************************************************)
YearInRange(year) == year = NoYear \/ year \in 1900..2100

\* the year of the posted form is an integer outside 1900..2100
PostedOutOfRange ==
    LET year_str == Strip(response.posted.year)
    IN  /\ year_str # <<>> /\ ~IntRaises(year_str)
        /\ IntOf(year_str) \notin 1900..2100

\* C26: after any sequence of framework edits and document imports every
\* stored framework's year is absent or within 1900..2100, and an edit that
\* posts a year outside that range is rejected and leaves the store as it was.
C26_Original ==
    /\ \A f \in frameworks : YearInRange(f.year)
    /\ response.kind = "edit_framework" /\ PostedOutOfRange
          => ~response.success /\ response.before = CurrentDb

(***************************************************************************)
(* Importing a document again.                                             *)
(***************************************************************************)
\* C29: importing the same parsed document a second time creates no
\* framework, criterion or definition and leaves the store as the first
\* import left it.
C29_Original ==
    response.kind = "import_document" /\ response.repeated
        => response.imported_count = 0 /\ response.before = CurrentDb

(***************************************************************************)
(* The description-rewrite commands.                                       *)
(***************************************************************************)
RewriteCommand ==
    response.kind \in {"update_criteria_intelligently",
                       "force_update_duplicate_descriptions"}

\* a criterion row without its description
WithoutDescription(c) ==
    [id |-> c.id, framework |-> c.framework, name |-> c.name,
     category |-> c.category, order |-> c.order]

\* the rewrite that came back for the criterion is too short for the command,
\* or none came back
TooShort(rewrite) ==
    Len(Strip(rewrite.enhanced_desc)) <=
        (IF response.kind = "update_criteria_intelligently" THEN 20 ELSE 30)

\* C27: a description-rewrite command creates and deletes no framework,
\* criterion or definition and changes no criterion's name, category, order
\* or framework; a criterion whose rewrite failed or was too short is as it
\* was; with --dry-run nothing at all changes.
C27_OnlyDescriptions ==
    RewriteCommand =>
        /\ frameworks = response.before.frameworks
        /\ definitions = response.before.definitions
        /\ {WithoutDescription(c) : c \in criteria}
              = {WithoutDescription(c) : c \in response.before.criteria}
        /\ Cardinality(criteria) = Cardinality(response.before.criteria)
        /\ \A rewrite \in response.rewrites :
              TooShort(rewrite) =>
                 \A c \in criteria : c.id = rewrite.id => c \in response.before.criteria
        /\ \A c \in criteria :
              c \notin response.before.criteria
                 => \E rewrite \in response.rewrites : rewrite.id = c.id
        /\ response.dry_run => CurrentDb = response.before

\* a command rewrote one criterion, left another whose rewrite was too short,
\* and a dry run was offered a long enough rewrite
C27_Witness ==
    /\ RewriteCommand
    /\ \E c \in criteria : c \notin response.before.criteria
    /\ \E rewrite \in response.rewrites : TooShort(rewrite)

C27_DryRunWitness ==
    /\ RewriteCommand /\ response.dry_run
    /\ \E rewrite \in response.rewrites : ~TooShort(rewrite)

(***************************************************************************)
(* What cleanup_duplicates leaves behind.                                  *)
(***************************************************************************)
CleanupCommitted == response.kind = "cleanup" /\ ~response.dry_run

DuplicateFrameworks ==
    \E f \in frameworks, g \in frameworks :
        f.id # g.id /\ normalize_name(f.name) = normalize_name(g.name)

DuplicateCriteria ==
    \E c \in criteria, d \in criteria :
        /\ c.id # d.id /\ c.framework = d.framework
        /\ normalize_criterion_name(c.name) = normalize_criterion_name(d.name)

\* C28: after a cleanup_duplicates without --dry-run has completed, no two
\* stored frameworks have the same normalize_name and no framework owns two
\* criteria of the same normalize_criterion_name.
C28_NoDuplicates ==
    CleanupCommitted => ~DuplicateFrameworks /\ ~DuplicateCriteria

\* a cleanup that merged a framework and a criterion has completed
C28_Witness ==
    /\ CleanupCommitted
    /\ response.frameworks_merged > 0
    /\ response.criteria_merged > 0

(***************************************************************************)
(* Definition texts across the merges of cleanup_duplicates.               *)
(***************************************************************************)
TracedCleanup ==
    response.kind = "cleanup" /\ ~response.dry_run

\* the texts attached to criterion id in a store
TextsOf(db, id) == {d.definition_text : d \in {x \in db.definitions : x.criterion = id}}

\* the frameworks that the framework merge deleted
MergedAwayFrameworks ==
    {f \in response.before.frameworks :
        \A g \in response.after_frameworks.frameworks : g.id # f.id}

\* the criteria that the criterion merge deleted
MergedAwayCriteria ==
    {c \in response.after_frameworks.criteria :
        \A d \in response.after_criteria.criteria : d.id # c.id}

\* after the framework merge the primary of the framework's group has a
\* criterion of the name, carrying the texts
KeptInPrimary(f, c) ==
    \E p \in response.after_frameworks.frameworks :
        /\ normalize_name(p.name) = normalize_name(f.name)
        /\ \E e \in response.after_frameworks.criteria :
              /\ e.framework = p.id /\ e.name = c.name
              /\ TextsOf(response.before, c.id)
                    \subseteq TextsOf(response.after_frameworks, e.id)

\* after the criterion merge the surviving criterion of the group carries
\* the texts
KeptInSurvivor(c) ==
    \E e \in response.after_criteria.criteria :
        /\ e.framework = c.framework
        /\ normalize_criterion_name(e.name) = normalize_criterion_name(c.name)
        /\ TextsOf(response.after_frameworks, c.id)
              \subseteq TextsOf(response.after_criteria, e.id)

====
